---- MODULE Spec2Model ----
(***************************************************************************)
(* Model of road_data_scraper: the orchestrator run() of main.py and the   *)
(* thread-pool download phase of steps/download.py (download, get_url,     *)
(* _response_to_df), with the module globals COUNTER, COUNTER_LOCK and     *)
(* THREAD_POOL; and the site lookup of steps/metadata.py                   *)
(* (get_sites_by_sensor, name_string_cleaner) over names spelled out       *)
(* character by character.                                                 *)
(***************************************************************************)
EXTENDS Integers, Sequences, FiniteSets, TLC

\* ------------------------------------------------------------------ bounds
\* largest number of sites the directory puts in one category
MaxSites == 3
\* largest number of report requests of one run that is not a test run
MaxUrls == 2
\* largest number of rows in one report body
MaxRows == 1
\* number of buffer-sized pieces one CSV row may be written in
RowParts == 2
\* number of pool threads (multiprocessing.cpu_count() of the host)
THREAD_POOL == 2
\* length of the long request list of the single-thread runs
LongPhase == 20
\* largest number of records in a directory of keyword names
MaxDir == 1
\* largest number of records in a payload of site records
MaxRecords == 2
\* largest number of fragments a spelled-out site name is put together from
MaxFrags == 2

\* ------------------------------------------------------- program constants
OK_STATUS == 200
SERVER_ERROR_LO == 500
SERVER_ERROR_HI == 600
LOG_STEPS == 10
SLICE_LO == 1
SLICE_HI == 2

\* ------------------------------------------------------------- data domains
Categories == <<"midas", "tmu", "tame">>

CategorySet == {Categories[i] : i \in 1..Len(Categories)}

\* statuses the upstream may answer with: 200, another 2xx, a 4xx, a 5xx
Statuses == {200, 204, 404, 503}

\* a pool with one thread more than max_workers
Workers_Extra == 1..(THREAD_POOL + 1)

\* the threads of ThreadPoolExecutor(max_workers=THREAD_POOL)
Workers == 1..THREAD_POOL

Header == [site_id |-> 0, row |-> 0, part |-> 0]

NoItem == [site_type |-> "none", site_id |-> 0]

NoResponse == [status |-> 0, parses |-> FALSE, rows |-> 0]

NoHistory == [gets |-> 0, incs |-> 0, count |-> 0, outcome |-> "none", rows |-> 0]

Min(a, b) == IF a < b THEN a ELSE b

Max(a, b) == IF a > b THEN a ELSE b

RECURSIVE SumOver(_, _)
SumOver(f, S) ==
    IF S = {} THEN 0
    ELSE LET x == CHOOSE y \in S : TRUE IN f[x] + SumOver(f, S \ {x})

Range(s) == {s[i] : i \in 1..Len(s)}

SelectPieces(s, id) == SelectSeq(s, LAMBDA p : p.site_id = id)

\* ------------------------------------------------------------ pure helpers
\* Python list slice m[lo:hi] with 0 <= lo <= hi
PySlice(m, lo, hi) == SubSeq(m, lo + 1, Min(hi, Len(m)))

\* a test slice that keeps the first element instead: metadata[0:1]
TestSlice_First(m) == PySlice(m, 0, 1)

\* main.py: metadata[1:2] of a test run
TestSlice(m) == PySlice(m, SLICE_LO, SLICE_HI)

\* site ids are unique over the whole directory
SiteId(c, i) ==
    CASE c = "midas" -> i
      [] c = "tmu" -> 10 + i
      [] c = "tame" -> 20 + i

\* get_sensor_urls: one request per site of the bucket, in bucket order
SensorMetadata(c, n) == [i \in 1..n |-> [site_type |-> c, site_id |-> SiteId(c, i)]]

\* a transform that keeps the rows of a 200 response only
ResponseToCsv_OkOnly(response, metadata) ==
    IF response.status # 200
    THEN <<>>
    ELSE [i \in 1..(response.rows * RowParts) |->
            [site_id |-> metadata.site_id,
             row |-> ((i - 1) \div RowParts) + 1,
             part |-> ((i - 1) % RowParts) + 1]]

\* a transform that hands the rows on in reverse order
ResponseToCsv_Reversed(response, metadata) ==
    [i \in 1..(response.rows * RowParts) |->
        [site_id |-> metadata.site_id,
         row |-> response.rows - ((i - 1) \div RowParts),
         part |-> ((i - 1) % RowParts) + 1]]

\* a to_csv that writes the column names before the rows (header=True)
ResponseToCsv_WithHeader(response, metadata) ==
    <<Header>> \o
    [i \in 1..(response.rows * RowParts) |->
        [site_id |-> metadata.site_id,
         row |-> ((i - 1) \div RowParts) + 1,
         part |-> ((i - 1) % RowParts) + 1]]

\* _response_to_df followed by the CSV serialisation of to_csv: the rows of
\* the body, each carrying the request's site id, as a sequence of pieces
ResponseToCsv(response, metadata) ==
    [i \in 1..(response.rows * RowParts) |->
        [site_id |-> metadata.site_id,
         row |-> ((i - 1) \div RowParts) + 1,
         part |-> ((i - 1) % RowParts) + 1]]

\* get_url: log_interval = max(1, total_urls // 10)
LogInterval(total) == Max(1, total \div LOG_STEPS)

\* get_url: the condition under which a progress line is written
ProgressDue(counter, total) ==
    (counter % LogInterval(total) = 0) \/ (counter = total)

\* get_url: the condition under which "request failed" is logged
IsFailedStatus(status) == status # OK_STATUS

\* get_url: the condition under which the worker sleeps
IsServerError(status) == SERVER_ERROR_LO <= status /\ status < SERVER_ERROR_HI

\* ------------------------------------------------------------ site names
\* the keywords of name_string_cleaner and the labels it returns
MIDAS == <<"M", "I", "D", "A", "S">>
TMU == <<"T", "M", "U">>
TAME == <<"T", "A", "M", "E">>
LEGACY_SITE == <<"L", "e", "g", "a", "c", "y", " ", "S", "i", "t", "e">>
LabelMidas == <<"m", "i", "d", "a", "s">>
LabelTmu == <<"t", "m", "u">>
LabelTame == <<"t", "a", "m", "e">>

\* Python's "p in s" and the literal pattern of str.contains(p, case=True)
IsSubstring(p, s) ==
    \E i \in 0..(Len(s) - Len(p)) : SubSeq(s, i + 1, i + Len(p)) = p

\* a cleaner that looks for TAME before TMU
NameStringCleaner_TameFirst(record) ==
    IF IsSubstring(MIDAS, record) THEN LabelMidas
    ELSE IF IsSubstring(TAME, record) THEN LabelTame
    ELSE IF IsSubstring(TMU, record) THEN LabelTmu
    ELSE IF IsSubstring(LEGACY_SITE, record) THEN LEGACY_SITE
    ELSE record

NameStringCleaner(record) ==
    IF IsSubstring(MIDAS, record) THEN LabelMidas
    ELSE IF IsSubstring(TMU, record) THEN LabelTmu
    ELSE IF IsSubstring(TAME, record) THEN LabelTame
    ELSE IF IsSubstring(LEGACY_SITE, record) THEN LEGACY_SITE
    ELSE record

\* ------------------------------------------------------------ directions
\* the keywords of direction_string_cleaner and the words it returns
DirEastbound == <<"e", "a", "s", "t", "b", "o", "u", "n", "d">>
DirNorthbound == <<"n", "o", "r", "t", "h", "b", "o", "u", "n", "d">>
DirSouthbound == <<"s", "o", "u", "t", "h", "b", "o", "u", "n", "d">>
DirWestbound == <<"w", "e", "s", "t", "b", "o", "u", "n", "d">>
DirClockwise == <<"c", "l", "o", "c", "k", "w", "i", "s", "e">>
DirAntiClockwise == <<"a", "n", "t", "i", "-", "c", "l", "o", "c", "k", "w", "i", "s", "e">>
DirLegacySite == <<"l", "e", "g", "a", "c", "y", " ", "s", "i", "t", "e">>
DirOnConnector == <<"o", "n", " ", "c", "o", "n", "n", "e", "c", "t", "o", "r">>
DirCarriagewayConnector == <<"c", "a", "r", "r", "i", "a", "g", "e", "w", "a", "y", " ", "c", "o", "n", "n", "e", "c", "t", "o", "r">>

\* a cleaner that looks for northbound before eastbound
DirectionStringCleaner_NorthFirst(record) ==
    IF IsSubstring(DirNorthbound, record) THEN DirNorthbound
    ELSE IF IsSubstring(DirEastbound, record) THEN DirEastbound
    ELSE IF IsSubstring(DirSouthbound, record) THEN DirSouthbound
    ELSE IF IsSubstring(DirWestbound, record) THEN DirWestbound
    ELSE IF IsSubstring(DirClockwise, record) THEN DirClockwise
    ELSE IF IsSubstring(DirAntiClockwise, record) THEN DirClockwise
    ELSE IF IsSubstring(DirLegacySite, record) THEN DirLegacySite
    ELSE IF IsSubstring(DirOnConnector, record) THEN DirCarriagewayConnector
    ELSE record

\* a cleaner whose last branch returns the string without its first character
DirectionStringCleaner_Sliced(record) ==
    IF IsSubstring(DirEastbound, record) THEN DirEastbound
    ELSE IF IsSubstring(DirNorthbound, record) THEN DirNorthbound
    ELSE IF IsSubstring(DirSouthbound, record) THEN DirSouthbound
    ELSE IF IsSubstring(DirWestbound, record) THEN DirWestbound
    ELSE IF IsSubstring(DirClockwise, record) THEN DirClockwise
    ELSE IF IsSubstring(DirAntiClockwise, record) THEN DirClockwise
    ELSE IF IsSubstring(DirLegacySite, record) THEN DirLegacySite
    ELSE IF IsSubstring(DirOnConnector, record) THEN DirCarriagewayConnector
    ELSE IF record = <<>> THEN record ELSE Tail(record)

DirectionStringCleaner(record) ==
    IF IsSubstring(DirEastbound, record) THEN DirEastbound
    ELSE IF IsSubstring(DirNorthbound, record) THEN DirNorthbound
    ELSE IF IsSubstring(DirSouthbound, record) THEN DirSouthbound
    ELSE IF IsSubstring(DirWestbound, record) THEN DirWestbound
    ELSE IF IsSubstring(DirClockwise, record) THEN DirClockwise
    ELSE IF IsSubstring(DirAntiClockwise, record) THEN DirClockwise
    ELSE IF IsSubstring(DirLegacySite, record) THEN DirLegacySite
    ELSE IF IsSubstring(DirOnConnector, record) THEN DirCarriagewayConnector
    ELSE record

\* the pieces the checked direction strings are put together from: the
\* keywords, the prefix of anti-clockwise, an output word and other text
DirFragments ==
    {DirEastbound, DirNorthbound, DirSouthbound, DirWestbound, DirClockwise,
     <<"a", "n", "t", "i", "-">>, DirLegacySite, DirOnConnector, DirCarriagewayConnector,
     <<"x", "x", " ">>, <<"O", "T", "H", "E", "R">>}

RECURSIVE StringsOf(_, _)
StringsOf(F, n) ==
    IF n = 0 THEN {<<>>}
    ELSE StringsOf(F, n - 1) \cup {a \o f : a \in StringsOf(F, n - 1), f \in F}

DirectionStrings == StringsOf(DirFragments, MaxFrags)

\* ------------------------------------------------------ the site directory
Digits == <<"0", "1", "2", "3", "4", "5", "6", "7", "8", "9">>
UpperCase == <<"A", "B", "C", "D", "E", "F", "G", "H", "I", "J", "K", "L", "M", "N", "O", "P", "Q", "R", "S", "T", "U", "V", "W", "X", "Y", "Z">>
LowerCase == <<"a", "b", "c", "d", "e", "f", "g", "h", "i", "j", "k", "l", "m", "n", "o", "p", "q", "r", "s", "t", "u", "v", "w", "x", "y", "z">>

\* the missing value (NaN) of a frame cell that holds character strings
NaN == <<"NaN">>

IsDigit(c) == c \in {Digits[i] : i \in 1..Len(Digits)}

\* the lower-case letter of every upper-case letter
LowerOf == [c \in {UpperCase[k] : k \in 1..Len(UpperCase)} |->
              LowerCase[CHOOSE k \in 1..Len(UpperCase) : UpperCase[k] = c]]

\* astype(int) of an id written in decimal digits
RECURSIVE AsInt(_)
AsInt(s) ==
    IF s = <<>> THEN 0
    ELSE AsInt(SubSeq(s, 1, Len(s) - 1)) * 10
         + ((CHOOSE i \in 1..Len(Digits) : Digits[i] = s[Len(s)]) - 1)

\* a lower() that leaves the string as it is
Lower_Kept(s) == s

\* str.lower()
Lower(s) ==
    [i \in 1..Len(s) |-> IF s[i] \in DOMAIN LowerOf THEN LowerOf[s[i]] ELSE s[i]]

\* str.split("; ").str[-1]: what follows the last "; " of the string, the
\* whole string when it has none
LastSegment(s) ==
    LET seps == {i \in 1..(Len(s) - 1) : s[i] = ";" /\ s[i + 1] = " "}
    IN IF seps = {} THEN s
       ELSE SubSeq(s, (CHOOSE i \in seps : \A j \in seps : j <= i) + 2, Len(s))

\* the last position of the run of digits that starts at position i
RunEnd(s, i) ==
    CHOOSE j \in i..Len(s) :
        /\ \A k \in i..j : IsDigit(s[k])
        /\ (j = Len(s) \/ ~IsDigit(s[j + 1]))

\* the positions at which the pattern \d+;\d+ matches
MatchStarts(s) ==
    {i \in 1..Len(s) :
        /\ IsDigit(s[i])
        /\ LET j == RunEnd(s, i)
           IN j + 2 <= Len(s) /\ s[j + 1] = ";" /\ IsDigit(s[j + 2])}

\* str.extract(r"(\d+;\d+)")[0]: the leftmost match, NaN without a match
Extract(s) ==
    IF MatchStarts(s) = {} THEN NaN
    ELSE LET i == CHOOSE a \in MatchStarts(s) : \A b \in MatchStarts(s) : a <= b
             j == RunEnd(s, i)
         IN SubSeq(s, i, RunEnd(s, j + 2))

\* str.split(";") of one string
RECURSIVE Split(_)
Split(s) ==
    LET at == {i \in 1..Len(s) : s[i] = ";"}
    IN IF at = {} THEN <<s>>
       ELSE LET i == CHOOSE a \in at : \A b \in at : a <= b
            IN <<SubSeq(s, 1, i - 1)>> \o Split(SubSeq(s, i + 1, Len(s)))

\* .str.split(";", expand=True) of the extracted column: the number of
\* columns of the frame it returns (a NaN row has one cell before it is
\* widened to the longest row)
SplitWidth(names) ==
    LET len(i) == IF Extract(names[i]) = NaN THEN 1 ELSE Len(Split(Extract(names[i])))
    IN CHOOSE n \in 1..2 :
          /\ \E i \in 1..Len(names) : len(i) = n
          /\ \A i \in 1..Len(names) : len(i) <= n

\* the cell of column c of the expanded frame for one name
Coordinate(name, c) ==
    IF Extract(name) = NaN THEN NaN ELSE Split(Extract(name))[c]

\* the frame of get_sites_by_sensor before its queries: one row per record
\* of the payload, in payload order, index the row label of the frame
\* (the description column is carried along untouched and left out)
LookupFrame(sites) ==
    [i \in 1..Len(sites) |->
        [index |-> i - 1,
         id |-> AsInt(sites[i].id),
         name |-> NameStringCleaner(sites[i].name),
         longitude |-> sites[i].longitude,
         latitude |-> sites[i].latitude,
         status |-> sites[i].status,
         direction |-> DirectionStringCleaner(Lower(LastSegment(sites[i].name))),
         easting |-> Coordinate(sites[i].name, 1),
         northing |-> Coordinate(sites[i].name, 2)]]

\* a "GPS Ref" every name of the keyword directories ends with
GpsRef == <<" ", "1", ";", "2">>

\* the pieces the names of the checked directories are put together from:
\* the keywords, their lower-case forms, and two pieces of a keyword
Fragments ==
    {MIDAS, TMU, TAME, LEGACY_SITE, LabelMidas, LabelTmu, LabelTame,
     <<"T">>, <<"A", "M", "E">>}

RECURSIVE NamesOf(_)
NamesOf(n) ==
    IF n = 0 THEN {<<>>}
    ELSE NamesOf(n - 1) \cup {a \o f : a \in NamesOf(n - 1), f \in Fragments}

Names == NamesOf(MaxFrags)

\* one record of the "sites" payload
Site(id, name, status) ==
    [id |-> id, name |-> name, longitude |-> -1, latitude |-> 53, status |-> status]

\* the name lists of the checked keyword lookups
Directories == UNION {[1..n -> Names] : n \in 1..MaxDir}

\* the "sites" payload of a name list: active sites whose id is their
\* position and whose name is the keyword name and a GPS Ref
KeywordDirectory(names) ==
    [i \in 1..Len(names) |-> Site(<<Digits[i + 1]>>, names[i] \o GpsRef, "Active")]

\* ------------------------------------------------------- the request URLs
\* the base URL, taken as one piece
BASE_URL == <<"https://webtris.highwaysengland.co.uk/api/v1/">>

\* str() of a non-negative integer
RECURSIVE IntToStr(_)
IntToStr(n) ==
    IF n < 10 THEN <<Digits[n + 1]>>
    ELSE IntToStr(n \div 10) \o <<Digits[(n % 10) + 1]>>

\* the number of days of a month of the proleptic Gregorian calendar
DaysIn(y, m) ==
    IF m \in {4, 6, 9, 11} THEN 30
    ELSE IF m # 2 THEN 31
    ELSE IF (y % 4 = 0 /\ y % 100 # 0) \/ y % 400 = 0 THEN 29
    ELSE 28

\* whether strptime(s, "%Y-%m-%d") accepts a string of the shape dddd-dd-dd
IsDate(s) ==
    /\ Len(s) = 10
    /\ \A i \in {1, 2, 3, 4, 6, 7, 9, 10} : IsDigit(s[i])
    /\ s[5] = "-" /\ s[8] = "-"
    /\ LET y == AsInt(SubSeq(s, 1, 4))
           m == AsInt(SubSeq(s, 6, 7))
           d == AsInt(SubSeq(s, 9, 10))
       IN y >= 1 /\ m \in 1..12 /\ d \in 1..DaysIn(y, m)

\* strptime(s, "%Y-%m-%d") of an accepted string
Strptime(s) ==
    [year |-> AsInt(SubSeq(s, 1, 4)),
     month |-> AsInt(SubSeq(s, 6, 7)),
     day |-> AsInt(SubSeq(s, 9, 10))]

\* a number of at most two digits, zero-padded to two
Pad2(n) == <<Digits[(n \div 10) + 1], Digits[(n % 10) + 1]>>

\* %Y of strftime: the C library decides whether a year below 1000 is
\* zero-padded to four digits (padded) or written as it is
YearStr(y, padded) ==
    IF padded /\ y < 1000
    THEN <<Digits[1]>> \o Pad2(y \div 100) \o Pad2(y % 100)
         \* y < 1000: the thousands digit is 0
    ELSE IntToStr(y)

\* a strftime that writes the month before the day
Strftime_MonthFirst(date, padded) ==
    Pad2(date.month) \o Pad2(date.day) \o YearStr(date.year, padded)

\* strftime("%d%m%Y")
Strftime(date, padded) ==
    Pad2(date.day) \o Pad2(date.month) \o YearStr(date.year, padded)

\* the f-string of create_sensor_metadata_tuples
SensorUrl(start, end, site) ==
    BASE_URL \o <<"r", "e", "p", "o", "r", "t", "s", "/">> \o start \o <<"/", "t", "o", "/">> \o end
    \o <<"/", "d", "a", "i", "l", "y", "?", "s", "i", "t", "e", "s", "=">> \o IntToStr(site) \o <<"&", "p", "a", "g", "e", "=", "1", "&", "p", "a", "g", "e", "_", "s", "i", "z", "e", "=", "4", "0", "0", "0", "0">>

\* a tuple with latitude before longitude
SensorTuple_Swapped(start, end, row) ==
    <<SensorUrl(start, end, row.id), row.id, row.name, row.direction,
      row.latitude, row.longitude, row.status, row.easting, row.northing>>

\* one element of the zip of create_sensor_metadata_tuples
SensorTuple(start, end, row) ==
    <<SensorUrl(start, end, row.id), row.id, row.name, row.direction,
      row.longitude, row.latitude, row.status, row.easting, row.northing>>

\* a check that lets every key of sensor_tables pass
IsSensorName_AnyBucket(name) == name \in {"midas", "tame", "tmu", "other"}

\* create_sensor_metadata_tuples: sensor_name in ("midas", "tame", "tmu")
IsSensorName(name) == name \in {"midas", "tame", "tmu"}

\* create_sensor_metadata_tuples past its check: the tuples of one bucket
SensorTuples(tables, start, end, name) ==
    [i \in 1..Len(tables[name]) |-> SensorTuple(start, end, tables[name][i])]

\* the start and end dates of the checked runs, as they stand in the config
\* (0999 is a year, 2024 a leap year; 02-29 and 02-31 are not always dates)
DateStrings ==
    {y \o <<"-">> \o m \o <<"-">> \o d :
        y \in {<<"0", "9", "9", "9">>, <<"2", "0", "2", "1">>, <<"2", "0", "2", "4">>},
        m \in {<<"0", "1">>, <<"0", "2">>, <<"1", "2">>},
        d \in {<<"0", "1">>, <<"2", "9">>, <<"3", "1">>}}

EndDateStrings == {<<"2", "0", "2", "1", "-", "0", "1", "-", "3", "1">>, <<"0", "9", "9", "9", "-", "1", "2", "-", "0", "1">>, <<"2", "0", "2", "1", "-", "0", "2", "-", "2", "9">>}

\* the sensor_name arguments of the checked calls, "None" the omitted one
SensorNames == {"midas", "tmu", "tame", "other", "None", "MIDAS"}

\* the pieces the names of the checked site records are put together from:
\* a head, then a GPS Ref and a direction segment, each of which may be missing
ScenarioHead == <<"M", "I", "D", "A", "S", " ", "s", "i", "t", "e", " ", ".", ".", ".", " ", "G", "P", "S", " ", "R", "e", "f", ":", " ">>

RecordHeads ==
    {ScenarioHead, <<"T", "M", "U", " ", "7", "/", "2", " ", "l", "i", "n", "k", " ", "5", ";", " ">>, <<"T", "A", "M", "E", " ">>, <<>>}

\* a GPS Ref and a direction segment
RecordBodies ==
    {<<"5", "1", "4", "0", "2", "9", ";", "2", "9", "4", "3", "5", "6", ";", " ", "S", "o", "u", "t", "h", "b", "o", "u", "n", "d">>, <<"1", "2", ";", "3", "4", ";", "5", "6">>, <<";", " ", "S", "o", "u", "t", "h", "b", "o", "u", "n", "d">>, <<>>}

\* the records of the checked payloads: records may repeat, and the id of
\* the inactive ones is written with a leading zero
Sites ==
    {Site(<<"2">>, h \o b, "Active") : h \in RecordHeads, b \in RecordBodies}
    \cup {Site(<<"0", "7">>, h \o <<"1", "2", ";", "3", "4", ";", "5", "6">>, "Inactive") : h \in RecordHeads}

SiteDirectories == UNION {[1..n -> Sites] : n \in 1..MaxRecords}

\* the records of the payloads whose requests are generated
UrlSites ==
    {Site(<<"2">>, ScenarioHead \o <<"5", "1", "4", "0", "2", "9", ";", "2", "9", "4", "3", "5", "6", ";", " ", "S", "o", "u", "t", "h", "b", "o", "u", "n", "d">>, "Active"),
     Site(<<"0", "7">>, ScenarioHead \o <<"1", "2", ";", "3", "4", ";", "5", "6">>, "Inactive"),
     Site(<<"1", "0">>, <<"T", "M", "U", " ", "7", "/", "2", " ", "l", "i", "n", "k", " ", "5", ";", " ">>, "Active"),
     Site(<<"3">>, <<>>, "Inactive")}

UrlDirectories == UNION {[1..n -> UrlSites] : n \in 1..MaxRecords}

Buckets == {"midas", "tmu", "tame", "other"}

NoTables == [b \in Buckets |-> <<>>]

\* DataFrame.query("name.str.contains(...)"): the rows whose name matches
\* one of the patterns, in the order of the frame
\* a query that returns its rows last row first
QueryContains_Reversed(df, patterns) ==
    LET rows == SelectSeq(df, LAMBDA r : \E p \in patterns : IsSubstring(p, r.name))
    IN [k \in 1..Len(rows) |-> rows[Len(rows) + 1 - k]]

QueryContains(df, patterns) ==
    SelectSeq(df, LAMBDA r : \E p \in patterns : IsSubstring(p, r.name))

QueryContainsNot(df, patterns) ==
    SelectSeq(df, LAMBDA r : ~\E p \in patterns : IsSubstring(p, r.name))

\* test_run, generate_report   run(): the config values read before the lookup
\* gcp_storage, rm_dir         run(): config values, FALSE until they are read
\* sites                       number of sites of each category in the directory
\* directory                   the names of the "sites" payload, spelled out
\* lookup_df, sensor_tables    the frame and the buckets of get_sites_by_sensor
\* record, cleaned             a direction string and what direction_string_cleaner
\*                             returned for it, applied once and once more
\* start_date, end_date        the dates of the config, as written there
\* sensor_name, sensor_metadata, error
\*                             a call of create_sensor_metadata_tuples: its
\*                             argument ("unset" before the call), the list
\*                             it returned and the exception it raised
\* csv_opened, data_path       the names download has opened with mode "w", in
\*                             order, and the directory it was given
\* first_file, first_hist      history: the file and the outcomes of the first
\*                             of two downloads of one category
\* rows_json, url_metadata, response_df
\*                             a call of _response_to_df: the "Rows" of the
\*                             body, the request's UrlMetadata and the frame
\* output_path, api_run, run_id, made_dirs, handler_paths
\*                             a call of file_handler: the configured path,
\*                             the mode, the time stamp, the directories on
\*                             disk and the four paths returned
\* today, config_dates         year and month of the clock, and the dates of
\*                             the config as run() reads them
\* pcMain, site_name           position of run() and the category it is at
\* generated, metadata         request lists of get_sensor_urls, before and
\*                             after the test-run slice
\* files                       content of each category's CSV file, in pieces
\* queue, total_urls           the executor's work queue and download's count
\* COUNTER, COUNTER_LOCK       the module globals (lock: 0 free, else holder)
\* pc, item, response, pending each pool thread's position in get_url, its
\*                             work item, its response and its unwritten pieces
\* progressLog, errorLog       the "Processed ..." and "request failed" entries
\* run_dir                     whether the run directory still exists
\* hist, stages, counter_at_start
\*                             history: per request of the phase the GETs,
\*                             increments, the value its increment gave
\*                             COUNTER, and outcome; the stages run() went
\*                             through; COUNTER when the phase started
VARIABLES
    test_run, generate_report, gcp_storage, rm_dir,
    sites, pcMain, site_name, generated, metadata,
    files, queue, total_urls,
    COUNTER, COUNTER_LOCK,
    pc, item, response, pending,
    progressLog, errorLog, hist, run_dir, stages, counter_at_start,
    directory, lookup_df, sensor_tables,
    record, cleaned,
    start_date, end_date, sensor_name, sensor_metadata, error,
    csv_opened, data_path,
    first_file, first_hist,
    rows_json, url_metadata, response_df,
    output_path, api_run, run_id, made_dirs, handler_paths,
    today, config_dates

generatorVars == <<start_date, end_date, sensor_name, sensor_metadata, error>>

\* the variables of the calls that are followed on their own: a rerun of
\* download, _response_to_df, file_handler and the default dates of run()
rerunVars == <<first_file, first_hist>>

frameVars == <<rows_json, url_metadata, response_df>>

handlerVars == <<output_path, api_run, run_id, made_dirs, handler_paths>>

dateVars == <<today, config_dates>>

unitVars == <<data_path, rerunVars, frameVars, handlerVars, dateVars>>

\* the variables of the site lookup and of the request lists
catalogVars == <<directory, lookup_df, sensor_tables, record, cleaned,
                 generatorVars>>

config == <<test_run, generate_report, sites, directory, lookup_df, sensor_tables,
            record, cleaned, generatorVars, unitVars>>

workerVars == <<pc, item, response, pending>>

vars == <<test_run, generate_report, gcp_storage, rm_dir,
          sites, pcMain, site_name, generated, metadata,
          files, queue, total_urls,
          COUNTER, COUNTER_LOCK,
          pc, item, response, pending,
          progressLog, errorLog, hist, run_dir, stages, counter_at_start,
          directory, lookup_df, sensor_tables,
          record, cleaned,
          start_date, end_date, sensor_name, sensor_metadata, error,
          csv_opened, data_path,
          first_file, first_hist,
          rows_json, url_metadata, response_df,
          output_path, api_run, run_id, made_dirs, handler_paths,
          today, config_dates>>

\* the runs in which no name of the directory is spelled out
NoDirectory ==
    /\ directory = <<>>
    /\ lookup_df = <<>>
    /\ sensor_tables = NoTables

\* the runs in which no direction string is spelled out
NoDirection ==
    /\ record = <<>>
    /\ cleaned = <<>>

\* no call of create_sensor_metadata_tuples is followed
NoCall ==
    /\ sensor_name = "unset"
    /\ sensor_metadata = <<>>
    /\ error = "none"

\* the runs in which no date is spelled out
NoGenerator ==
    /\ start_date = <<>>
    /\ end_date = <<>>
    /\ NoCall

\* no rerun of a download is followed
NoRerun ==
    /\ first_file = <<>>
    /\ first_hist = <<>>

\* no call of _response_to_df is followed
NoFrame ==
    /\ rows_json = <<>>
    /\ url_metadata = <<>>
    /\ response_df = <<>>

\* no call of file_handler is followed
NoHandler ==
    /\ output_path = <<>>
    /\ api_run = FALSE
    /\ run_id = <<>>
    /\ made_dirs = {}
    /\ handler_paths = <<>>

\* the dates are not read from a config
NoDates ==
    /\ today = <<>>
    /\ config_dates = <<>>

\* the runs in which no path is spelled out and none of these calls is
\* followed
NoUnits ==
    /\ data_path = <<>>
    /\ NoRerun
    /\ NoFrame
    /\ NoHandler
    /\ NoDates

NoCatalog ==
    /\ NoDirectory
    /\ NoDirection
    /\ NoGenerator
    /\ NoUnits

\* the directory snapshots a run is checked for: the number of sites of each
\* category
SiteCounts == [CategorySet -> 0..MaxSites]

Init ==
    /\ test_run \in BOOLEAN
    /\ generate_report \in BOOLEAN
    /\ gcp_storage = FALSE
    /\ rm_dir = FALSE
    /\ sites \in SiteCounts
    /\ (~test_run) => sites["midas"] + sites["tmu"] + sites["tame"] <= MaxUrls
    /\ NoCatalog
    /\ pcMain = "lookup"
    /\ site_name = 1
    /\ generated = [c \in CategorySet |-> <<>>]
    /\ metadata = [c \in CategorySet |-> <<>>]
    /\ files = [c \in CategorySet |-> <<>>]
    /\ queue = <<>>
    /\ total_urls = 0
    /\ COUNTER = 0
    /\ COUNTER_LOCK = 0
    /\ pc = [w \in Workers |-> "idle"]
    /\ item = [w \in Workers |-> NoItem]
    /\ response = [w \in Workers |-> NoResponse]
    /\ pending = [w \in Workers |-> <<>>]
    /\ progressLog = <<>>
    /\ errorLog = {}
    /\ hist = [r \in {} |-> NoHistory]
    /\ run_dir = "created"
    /\ stages = <<>>
    /\ counter_at_start = 0
    /\ csv_opened = <<>>

logVars == <<progressLog, errorLog>>

\* the bodies and statuses a GET may return
Responses ==
    {[status |-> s, parses |-> TRUE, rows |-> k] : s \in Statuses, k \in 0..MaxRows}
    \cup {[status |-> s, parses |-> FALSE, rows |-> 0] : s \in Statuses}

\* a check that lets every name pass
ValidSiteNames_AnyName == {"midas", "tame", "tmu", "other"}

ValidSiteNames == {"midas", "tame", "tmu"}

\* the names download is called with: by run(), and by a caller that passes
\* another name
CalledNames == Categories \o <<"other">>

CalledSet == {CalledNames[i] : i \in 1..Len(CalledNames)}

SiteName == CalledNames[site_name]

\* a name that carries the test-run mark in every run
FullCsvName_AlwaysTest(run_id_path, name, start, end, test) ==
    run_id_path \o <<"/", name, "_">> \o start \o <<"-">> \o end
        \o <<"_TEST_RUN", ".csv">>

\* download: full_csv_name, the f-string of the test run or the other one
FullCsvName(run_id_path, name, start, end, test) ==
    IF test
    THEN run_id_path \o <<"/", name, "_">> \o start \o <<"-">> \o end
             \o <<"_TEST_RUN", ".csv">>
    ELSE run_id_path \o <<"/", name, "_">> \o start \o <<"-">> \o end
             \o <<".csv">>

\* ------------------------------------------------------- run() of main.py
\* get_sites_by_sensor, get_sensor_urls and the test-run slices
Lookup ==
    /\ pcMain = "lookup"
    /\ generated' = [c \in CategorySet |-> SensorMetadata(c, sites[c])]
    /\ metadata' = [c \in CategorySet |->
                      IF test_run THEN TestSlice(generated'[c]) ELSE generated'[c]]
    /\ pcMain' = "download"
    /\ stages' = Append(stages, "lookup")
    /\ UNCHANGED <<config, csv_opened, counter_at_start, gcp_storage, rm_dir, site_name,
                   files, queue, total_urls, COUNTER, COUNTER_LOCK,
                   workerVars, logVars, hist, run_dir>>

\* a lookup whose exception is swallowed: run() goes on with empty lists
LookupFails_Continue ==
    /\ pcMain = "lookup"
    /\ pcMain' = "download"
    /\ UNCHANGED <<config, csv_opened, counter_at_start, gcp_storage, rm_dir, site_name,
                   generated, metadata, files, queue, total_urls, COUNTER,
                   COUNTER_LOCK, workerVars, logVars, hist, run_dir, stages>>

\* get_sites_by_sensor raises: the request errors or the payload has no "sites"
LookupFails ==
    /\ pcMain = "lookup"
    /\ pcMain' = "aborted"
    /\ UNCHANGED <<config, csv_opened, counter_at_start, gcp_storage, rm_dir, site_name,
                   generated, metadata, files, queue, total_urls, COUNTER,
                   COUNTER_LOCK, workerVars, logVars, hist, run_dir, stages>>

\* download(): category check, header written to a truncated file, every
\* request submitted to the executor
StartDownload ==
    /\ pcMain = "download"
    /\ IF SiteName \notin ValidSiteNames
       THEN /\ pcMain' = "aborted"
            /\ UNCHANGED <<files, queue, total_urls, hist, stages,
                           counter_at_start, csv_opened>>
       ELSE /\ csv_opened' = Append(csv_opened,
                                FullCsvName(data_path, SiteName, start_date,
                                            end_date, test_run))
            /\ files' = [files EXCEPT ![SiteName] = <<Header>>]
            /\ total_urls' = Len(metadata[SiteName])
            /\ queue' = metadata[SiteName]
            /\ hist' = [r \in Range(generated[SiteName]) |-> NoHistory]
            /\ pcMain' = "pool"
            /\ stages' = Append(stages, SiteName)
            /\ counter_at_start' = COUNTER
    /\ UNCHANGED <<config, gcp_storage, rm_dir, site_name, generated,
                   metadata, COUNTER, COUNTER_LOCK, workerVars, logVars,
                   run_dir>>

SomeItemRaised == \E r \in DOMAIN hist : hist[r].outcome \in {"transport", "malformed"}

\* a pool exit that re-raises a work item's exception, as iterating the
\* results of executor.map would
PoolExit_Reraise(raised) == IF raised THEN "aborted" ELSE "returned"

\* leaving "with ThreadPoolExecutor": the results of executor.map are never
\* iterated, so an exception stored in a future is not re-raised
PoolExit(raised) == "returned"

\* a download that returns once the queue is empty, without waiting for
\* the running threads, as shutdown(wait=False) would
FinishDownload_NoWait ==
    /\ pcMain = "pool"
    /\ queue = <<>>
    /\ pcMain' = "returned"
    /\ UNCHANGED <<config, csv_opened, counter_at_start, gcp_storage, rm_dir, site_name,
                   generated, metadata, files, queue, total_urls, COUNTER,
                   COUNTER_LOCK, workerVars, logVars, hist, run_dir, stages>>

\* download(): the executor's shutdown(wait=True) has seen every worker return
FinishDownload ==
    /\ pcMain = "pool"
    /\ queue = <<>>
    /\ \A w \in Workers : pc[w] = "idle"
    /\ pcMain' = PoolExit(SomeItemRaised)
    /\ UNCHANGED <<config, csv_opened, counter_at_start, gcp_storage, rm_dir, site_name,
                   generated, metadata, files, queue, total_urls, COUNTER,
                   COUNTER_LOCK, workerVars, logVars, hist, run_dir, stages>>

\* a run() that goes on to the reports after its first download
NextPhase_SkipsToReport ==
    /\ pcMain = "returned"
    /\ site_name' = site_name
    /\ pcMain' = "report"
    /\ UNCHANGED <<config, csv_opened, counter_at_start, gcp_storage, rm_dir, generated,
                   metadata, files, queue, total_urls, COUNTER, COUNTER_LOCK,
                   workerVars, logVars, hist, run_dir, stages>>

\* run(): the next download_partial call, or on to the reports
NextPhase ==
    /\ pcMain = "returned"
    /\ IF site_name < Len(Categories)
       THEN /\ site_name' = site_name + 1
            /\ pcMain' = "download"
       ELSE /\ site_name' = site_name
            /\ pcMain' = "report"
    /\ UNCHANGED <<config, csv_opened, counter_at_start, gcp_storage, rm_dir, generated,
                   metadata, files, queue, total_urls, COUNTER, COUNTER_LOCK,
                   workerVars, logVars, hist, run_dir, stages>>

\* run(): run_reports when generate_report is set
Report ==
    /\ pcMain = "report"
    /\ stages' = IF generate_report THEN Append(stages, "report") ELSE stages
    /\ pcMain' = "dump_config"
    /\ UNCHANGED <<config, csv_opened, counter_at_start, gcp_storage, rm_dir, site_name,
                   generated, metadata, files, queue, total_urls, COUNTER,
                   COUNTER_LOCK, workerVars, logVars, hist, run_dir>>

\* run(): dump_config and the copy of the log file
DumpConfig ==
    /\ pcMain = "dump_config"
    /\ stages' = Append(stages, "dump_config")
    /\ pcMain' = "upload"
    /\ UNCHANGED <<config, csv_opened, counter_at_start, gcp_storage, rm_dir, site_name,
                   generated, metadata, files, queue, total_urls, COUNTER,
                   COUNTER_LOCK, workerVars, logVars, hist, run_dir>>

\* run(): gcp_storage is read from the config; gcp_upload_from_directory when
\* it is set
Upload ==
    /\ pcMain = "upload"
    /\ gcp_storage' \in BOOLEAN
    /\ stages' = IF gcp_storage' THEN Append(stages, "upload") ELSE stages
    /\ pcMain' = "rmtree"
    /\ UNCHANGED <<config, csv_opened, counter_at_start, rm_dir, site_name, generated,
                   metadata, files, queue, total_urls, COUNTER, COUNTER_LOCK,
                   workerVars, logVars, hist, run_dir>>

\* a run() that removes the run directory before the lookup, and not again
\* at its end
RmTree_BeforeScraping ==
    /\ pcMain = "lookup"
    /\ stages = <<>>
    /\ rm_dir = FALSE
    /\ rm_dir' = TRUE
    /\ run_dir' = "removed"
    /\ files' = [c \in CategorySet |-> <<>>]
    /\ stages' = Append(stages, "rmtree")
    /\ pcMain' = "lookup"
    /\ UNCHANGED <<config, csv_opened, counter_at_start, gcp_storage, site_name,
                   generated, metadata, queue, total_urls, COUNTER,
                   COUNTER_LOCK, workerVars, logVars, hist>>

\* run(): rm_dir is read from the config; shutil.rmtree of the run directory
\* when it is set
RmTree ==
    /\ pcMain = "rmtree"
    /\ rm_dir' \in BOOLEAN
    /\ IF rm_dir'
       THEN /\ run_dir' = "removed"
            /\ files' = [c \in CategorySet |-> <<>>]
            /\ stages' = Append(stages, "rmtree")
       ELSE UNCHANGED <<run_dir, files, stages>>
    /\ pcMain' = "done"
    /\ UNCHANGED <<config, csv_opened, counter_at_start, gcp_storage, site_name,
                   generated, metadata, queue, total_urls, COUNTER,
                   COUNTER_LOCK, workerVars, logVars, hist>>

\* ------------------------------------------------ pool threads and get_url
Return(w) ==
    /\ pc' = [pc EXCEPT ![w] = "idle"]
    /\ item' = [item EXCEPT ![w] = NoItem]
    /\ response' = [response EXCEPT ![w] = NoResponse]
    /\ pending' = [pending EXCEPT ![w] = <<>>]

\* a pool thread that leaves the work item it takes in the queue
Take_KeepsQueued(w) ==
    /\ pc[w] = "idle"
    /\ queue # <<>>
    /\ item' = [item EXCEPT ![w] = Head(queue)]
    /\ queue' = queue
    /\ pc' = [pc EXCEPT ![w] = "get"]
    /\ UNCHANGED <<config, csv_opened, counter_at_start, gcp_storage, rm_dir, pcMain,
                   site_name, generated, metadata, files, total_urls,
                   COUNTER, COUNTER_LOCK, response, pending, logVars, hist,
                   run_dir, stages>>

\* a pool thread takes the next work item of the executor's queue
Take(w) ==
    /\ pc[w] = "idle"
    /\ queue # <<>>
    /\ item' = [item EXCEPT ![w] = Head(queue)]
    /\ queue' = Tail(queue)
    /\ pc' = [pc EXCEPT ![w] = "get"]
    /\ UNCHANGED <<config, csv_opened, counter_at_start, gcp_storage, rm_dir, pcMain,
                   site_name, generated, metadata, files, total_urls,
                   COUNTER, COUNTER_LOCK, response, pending, logVars, hist,
                   run_dir, stages>>

\* get_url: session.get returns one of the responses R
GetReturnsFrom(w, R) ==
    /\ pc[w] = "get"
    /\ \E resp \in R : response' = [response EXCEPT ![w] = resp]
    /\ hist' = [hist EXCEPT ![item[w]].gets = @ + 1]
    /\ pc' = [pc EXCEPT ![w] = "lock"]
    /\ UNCHANGED <<config, csv_opened, counter_at_start, gcp_storage, rm_dir, pcMain,
                   site_name, generated, metadata, files, queue, total_urls,
                   COUNTER, COUNTER_LOCK, item, pending, logVars, run_dir,
                   stages>>

\* get_url: session.get returns a response
GetReturns(w) == GetReturnsFrom(w, Responses)

\* get_url: session.get raises once the adapter's retries are used up; the
\* exception ends the work item and is kept in its future
GetRaises(w) ==
    /\ pc[w] = "get"
    /\ hist' = [hist EXCEPT ![item[w]].gets = @ + 1,
                            ![item[w]].outcome = "transport"]
    /\ Return(w)
    /\ UNCHANGED <<config, csv_opened, counter_at_start, gcp_storage, rm_dir, pcMain,
                   site_name, generated, metadata, files, queue, total_urls,
                   COUNTER, COUNTER_LOCK, logVars, run_dir, stages>>

\* a block that is entered without waiting for the lock
Acquire_NoLock(w) ==
    /\ pc[w] = "lock"
    /\ COUNTER_LOCK' = w
    /\ pc' = [pc EXCEPT ![w] = "counter"]
    /\ UNCHANGED <<config, csv_opened, counter_at_start, gcp_storage, rm_dir, pcMain,
                   site_name, generated, metadata, files, queue, total_urls,
                   COUNTER, item, response, pending, logVars, hist, run_dir,
                   stages>>

\* get_url: "with COUNTER_LOCK" is entered
Acquire(w) ==
    /\ pc[w] = "lock"
    /\ COUNTER_LOCK = 0
    /\ COUNTER_LOCK' = w
    /\ pc' = [pc EXCEPT ![w] = "counter"]
    /\ UNCHANGED <<config, csv_opened, counter_at_start, gcp_storage, rm_dir, pcMain,
                   site_name, generated, metadata, files, queue, total_urls,
                   COUNTER, item, response, pending, logVars, hist, run_dir,
                   stages>>

\* get_url: COUNTER += 1 inside "with COUNTER_LOCK"
Count(w) ==
    /\ pc[w] = "counter"
    /\ COUNTER' = COUNTER + 1
    /\ hist' = [hist EXCEPT ![item[w]].incs = @ + 1,
                            ![item[w]].count = COUNTER + 1]
    /\ pc' = [pc EXCEPT ![w] = "log"]
    /\ UNCHANGED <<config, csv_opened, counter_at_start, gcp_storage, rm_dir, pcMain,
                   site_name, generated, metadata, files, queue, total_urls,
                   COUNTER_LOCK, item, response, pending, logVars, run_dir,
                   stages>>

\* a block that is left without releasing the lock
Unlocked_Kept(w) == w

\* the lock after the block of "with COUNTER_LOCK" was left by thread w
Unlocked(w) == 0

\* get_url: the rest of the "with COUNTER_LOCK" block, which reads COUNTER
\* again for the remaining count, the test and the progress line, and the
\* release of the lock
LogProgress(w) ==
    /\ pc[w] = "log"
    /\ progressLog' =
          IF ProgressDue(COUNTER, total_urls)
          THEN Append(progressLog,
                      [processed |-> COUNTER,
                       remaining |-> total_urls - COUNTER,
                       site_id |-> item[w].site_id])
          ELSE progressLog
    /\ COUNTER_LOCK' = Unlocked(w)
    /\ pc' = [pc EXCEPT ![w] = "transform"]
    /\ UNCHANGED <<config, csv_opened, counter_at_start, gcp_storage, rm_dir, pcMain,
                   site_name, generated, metadata, files, queue, total_urls,
                   COUNTER, item, response, pending, errorLog, hist, run_dir,
                   stages>>

\* get_url: _response_to_df; response.json()["Rows"] raises on a body that
\* is not the expected JSON, which ends the work item
Transform(w) ==
    /\ pc[w] = "transform"
    /\ IF response[w].parses
       THEN /\ pending' = [pending EXCEPT ![w] = ResponseToCsv(response[w], item[w])]
            /\ hist' = [hist EXCEPT ![item[w]].outcome = "ok",
                                    ![item[w]].rows = response[w].rows]
            /\ pc' = [pc EXCEPT ![w] = "to_csv"]
            /\ UNCHANGED <<item, response>>
       ELSE /\ hist' = [hist EXCEPT ![item[w]].outcome = "malformed"]
            /\ Return(w)
    /\ UNCHANGED <<config, csv_opened, counter_at_start, gcp_storage, rm_dir, pcMain,
                   site_name, generated, metadata, files, queue, total_urls,
                   COUNTER, COUNTER_LOCK, logVars, run_dir, stages>>

\* the number of pieces one write of the append-mode file may carry: the
\* file object's buffer is flushed wherever it fills up, and no lock is held
ChunkSizes(n) == 1..n

\* get_url: df.to_csv(mode="a"): one write of the worker's own file object
ToCsv(w) ==
    /\ pc[w] = "to_csv"
    /\ IF pending[w] = <<>>
       THEN /\ pc' = [pc EXCEPT ![w] = "status"]
            /\ UNCHANGED <<files, pending>>
       ELSE \E k \in ChunkSizes(Len(pending[w])) :
            /\ files' = [files EXCEPT ![item[w].site_type] =
                            @ \o SubSeq(pending[w], 1, k)]
            /\ pending' = [pending EXCEPT ![w] =
                            SubSeq(pending[w], k + 1, Len(pending[w]))]
            /\ pc' = [pc EXCEPT ![w] =
                            IF k = Len(pending[w]) THEN "status" ELSE "to_csv"]
    /\ UNCHANGED <<config, csv_opened, counter_at_start, gcp_storage, rm_dir, pcMain,
                   site_name, generated, metadata, queue, total_urls,
                   COUNTER, COUNTER_LOCK, item, response, logVars, hist,
                   run_dir, stages>>

\* get_url: the status checks after the append
CheckStatus(w) ==
    /\ pc[w] = "status"
    /\ errorLog' =
          IF IsFailedStatus(response[w].status)
          THEN errorLog \cup {[status |-> response[w].status,
                               site_id |-> item[w].site_id]}
          ELSE errorLog
    /\ IF IsServerError(response[w].status)
       THEN /\ pc' = [pc EXCEPT ![w] = "sleep"]
            /\ UNCHANGED <<item, response, pending>>
       ELSE Return(w)
    /\ UNCHANGED <<config, csv_opened, counter_at_start, gcp_storage, rm_dir, pcMain,
                   site_name, generated, metadata, files, queue, total_urls,
                   COUNTER, COUNTER_LOCK, progressLog, hist, run_dir,
                   stages>>

\* get_url: time.sleep(5) is over and the response is returned
Wake(w) ==
    /\ pc[w] = "sleep"
    /\ Return(w)
    /\ UNCHANGED <<config, csv_opened, counter_at_start, gcp_storage, rm_dir, pcMain,
                   site_name, generated, metadata, files, queue, total_urls,
                   COUNTER, COUNTER_LOCK, logVars, hist, run_dir, stages>>

Next ==
    \/ Lookup
    \/ LookupFails
    \/ StartDownload
    \/ FinishDownload
    \/ NextPhase
    \/ Report
    \/ DumpConfig
    \/ Upload
    \/ RmTree
    \/ \E w \in Workers : Take(w)
    \/ \E w \in Workers : GetReturns(w)
    \/ \E w \in Workers : GetRaises(w)
    \/ \E w \in Workers : Acquire(w)
    \/ \E w \in Workers : Count(w)
    \/ \E w \in Workers : LogProgress(w)
    \/ \E w \in Workers : Transform(w)
    \/ \E w \in Workers : ToCsv(w)
    \/ \E w \in Workers : CheckStatus(w)
    \/ \E w \in Workers : Wake(w)

Spec == Init /\ [][Next]_vars

\* The threads of the process are scheduled by the operating system, a GET
\* returns or raises, and a sleep ends: a step that can be taken is
\* eventually taken.
InitFair ==
    /\ Init
    /\ test_run = FALSE
    /\ generate_report = FALSE
    /\ sites["tame"] = 0

SpecFair == InitFair /\ [][Next]_vars /\ WF_vars(Next)

\* the state of the process when run() is entered, the config apart
Fresh ==
    /\ gcp_storage = FALSE
    /\ rm_dir = FALSE
    /\ pcMain = "lookup"
    /\ site_name = 1
    /\ generated = [c \in CategorySet |-> <<>>]
    /\ metadata = [c \in CategorySet |-> <<>>]
    /\ files = [c \in CategorySet |-> <<>>]
    /\ queue = <<>>
    /\ total_urls = 0
    /\ COUNTER = 0
    /\ COUNTER_LOCK = 0
    /\ pc = [w \in Workers |-> "idle"]
    /\ item = [w \in Workers |-> NoItem]
    /\ response = [w \in Workers |-> NoResponse]
    /\ pending = [w \in Workers |-> <<>>]
    /\ progressLog = <<>>
    /\ errorLog = {}
    /\ hist = [r \in {} |-> NoHistory]
    /\ run_dir = "created"
    /\ stages = <<>>
    /\ counter_at_start = 0
    /\ csv_opened = <<>>

\* the steps of run() and of the pool threads when every GET returns one of
\* the responses R
NextWith(R) ==
    \/ Lookup
    \/ StartDownload
    \/ FinishDownload
    \/ NextPhase
    \/ Report
    \/ DumpConfig
    \/ Upload
    \/ RmTree
    \/ \E w \in Workers : Take(w)
    \/ \E w \in Workers : GetReturnsFrom(w, R)
    \/ \E w \in Workers : Acquire(w)
    \/ \E w \in Workers : Count(w)
    \/ \E w \in Workers : LogProgress(w)
    \/ \E w \in Workers : Transform(w)
    \/ \E w \in Workers : ToCsv(w)
    \/ \E w \in Workers : CheckStatus(w)

\* A run over two midas requests whose 200 responses carry up to
\* MaxRows + 1 rows: the runs in which one response has several rows.
InitRows ==
    /\ test_run = FALSE
    /\ generate_report = FALSE
    /\ sites = [midas |-> 2, tmu |-> 0, tame |-> 0]
    /\ NoCatalog
    /\ Fresh

RowResponses ==
    {[status |-> OK_STATUS, parses |-> TRUE, rows |-> k] : k \in 1..(MaxRows + 1)}

NextRows == NextWith(RowResponses)

SpecRows == InitRows /\ [][NextRows]_vars

\* A run whose midas list has one request more than the pool has threads,
\* every response being a 200 with an empty row list: the runs in which a
\* request has to wait for a thread.
InitPool ==
    /\ test_run = FALSE
    /\ generate_report = FALSE
    /\ sites = [midas |-> THREAD_POOL + 1, tmu |-> 0, tame |-> 0]
    /\ NoCatalog
    /\ Fresh

EmptyResponses == {[status |-> OK_STATUS, parses |-> TRUE, rows |-> 0]}

NextPool == NextWith(EmptyResponses)

SpecPool == InitPool /\ [][NextPool]_vars

\* get_sites_by_sensor over a payload of spelled-out names: direction and
\* coordinates are taken from the name, the name column is cleaned and the
\* four buckets are queried from the cleaned frame; the assignment of the
\* coordinate columns raises when no name of the payload has a match
GetSitesBySensor ==
    /\ pcMain = "lookup"
    /\ directory # <<>>
    /\ lookup_df = <<>>
    /\ IF SplitWidth([i \in 1..Len(directory) |-> directory[i].name]) # 2
       THEN \* ValueError: Columns must be same length as key
            /\ pcMain' = "aborted"
            /\ UNCHANGED <<lookup_df, sensor_tables>>
       ELSE LET df == LookupFrame(directory)
            IN /\ lookup_df' = df
               /\ sensor_tables' =
                     [midas |-> QueryContains(df, {LabelMidas}),
                      tmu |-> QueryContains(df, {LabelTmu}),
                      tame |-> QueryContains(df, {LabelTame}),
                      other |-> QueryContainsNot(df, {LabelMidas, LabelTmu, LabelTame})]
               /\ UNCHANGED pcMain
    /\ UNCHANGED <<test_run, generate_report, sites, directory, record, cleaned,
                   generatorVars, unitVars, csv_opened, counter_at_start, gcp_storage, rm_dir, site_name,
                   generated, metadata, files, queue, total_urls, COUNTER,
                   COUNTER_LOCK, workerVars, logVars, hist, run_dir, stages>>

\* The lookups of every directory of up to MaxDir spelled-out names.
InitSites ==
    /\ test_run = FALSE
    /\ generate_report = FALSE
    /\ sites = [c \in CategorySet |-> 0]
    /\ \E names \in Directories : directory = KeywordDirectory(names)
    /\ lookup_df = <<>>
    /\ sensor_tables = NoTables
    /\ NoDirection
    /\ NoGenerator
    /\ NoUnits
    /\ Fresh

NextSites == GetSitesBySensor

SpecSites == InitSites /\ [][NextSites]_vars

\* The lookups of every payload of up to MaxRecords site records.
InitRecords ==
    /\ test_run = FALSE
    /\ generate_report = FALSE
    /\ sites = [c \in CategorySet |-> 0]
    /\ directory \in SiteDirectories
    /\ lookup_df = <<>>
    /\ sensor_tables = NoTables
    /\ NoDirection
    /\ NoGenerator
    /\ NoUnits
    /\ Fresh

NextRecords == GetSitesBySensor

SpecRecords == InitRecords /\ [][NextRecords]_vars

\* the variables of run() and of the download phases
programVars ==
    <<test_run, generate_report, sites, gcp_storage, rm_dir, pcMain, site_name,
      generated, metadata, files, queue, total_urls, COUNTER, COUNTER_LOCK,
      workerVars, logVars, hist, run_dir, stages, counter_at_start>>

\* direction_string_cleaner is applied to the direction string, and then to
\* what it returned
CleanDirection ==
    /\ Len(cleaned) < 2
    /\ cleaned' = Append(cleaned,
                     DirectionStringCleaner(IF cleaned = <<>> THEN record
                                            ELSE cleaned[Len(cleaned)]))
    /\ UNCHANGED <<programVars, directory, lookup_df, sensor_tables, record,
                   generatorVars, unitVars, csv_opened>>

\* The cleanings of every direction string of up to MaxFrags pieces.
InitDirection ==
    /\ test_run = FALSE
    /\ generate_report = FALSE
    /\ sites = [c \in CategorySet |-> 0]
    /\ NoDirectory
    /\ record \in DirectionStrings
    /\ cleaned = <<>>
    /\ NoGenerator
    /\ NoUnits
    /\ Fresh

NextDirection == CleanDirection

SpecDirection == InitDirection /\ [][NextDirection]_vars

\* get_sensor_urls: both dates go through strptime and strftime, then the
\* three lists are made; a string that is no date raises ValueError in run()
GetSensorUrls ==
    /\ pcMain = "lookup"
    /\ lookup_df # <<>>
    /\ IF ~(IsDate(start_date) /\ IsDate(end_date))
       THEN /\ pcMain' = "aborted"
            /\ UNCHANGED generated
       ELSE \E padded \in BOOLEAN :
               LET start == Strftime(Strptime(start_date), padded)
                   end == Strftime(Strptime(end_date), padded)
               IN /\ generated' = [c \in CategorySet |->
                                     SensorTuples(sensor_tables, start, end, c)]
                  /\ pcMain' = "download"
    /\ UNCHANGED <<test_run, generate_report, sites, directory, lookup_df,
                   sensor_tables, record, cleaned, generatorVars, unitVars,
                   csv_opened,
                   counter_at_start, gcp_storage, rm_dir, site_name, metadata,
                   files, queue, total_urls, COUNTER, COUNTER_LOCK, workerVars,
                   logVars, hist, run_dir, stages>>

\* a call of create_sensor_metadata_tuples with the dates as they are and
\* the given sensor_name
CreateSensorMetadataTuples(name) ==
    /\ lookup_df # <<>>
    /\ sensor_name = "unset"
    /\ sensor_name' = name
    /\ IF ~IsSensorName(name)
       THEN /\ error' = "ValueError"
            /\ UNCHANGED sensor_metadata
       ELSE /\ sensor_metadata' = SensorTuples(sensor_tables, start_date, end_date, name)
            /\ UNCHANGED error
    /\ UNCHANGED <<programVars, directory, lookup_df, sensor_tables, record,
                   cleaned, start_date, end_date, unitVars, csv_opened>>

\* The lookups and the request lists of every payload of up to MaxRecords
\* records, for the dates of the config.
InitUrls ==
    /\ test_run = FALSE
    /\ generate_report = FALSE
    /\ sites = [c \in CategorySet |-> 0]
    /\ directory \in UrlDirectories
    /\ lookup_df = <<>>
    /\ sensor_tables = NoTables
    /\ NoDirection
    /\ start_date \in DateStrings
    /\ end_date \in EndDateStrings
    /\ NoCall
    /\ NoUnits
    /\ Fresh

NextUrls ==
    \/ GetSitesBySensor
    \/ GetSensorUrls
    \/ \E name \in SensorNames : CreateSensorMetadataTuples(name)

SpecUrls == InitUrls /\ [][NextUrls]_vars

\* the dates download is called with: as a config spells them, and as run()
\* makes them when the config leaves them empty
DownloadDates ==
    {<<<<"2", "0", "2", "1", "-", "0", "1", "-", "0", "1">>,
       <<"2", "0", "2", "1", "-", "0", "1", "-", "3", "1">>>>,
     <<<<"2", "0", "2", "4", "-", "9", "-", "0", "1">>,
       <<"2", "0", "2", "4", "-", "9", "-", "3", "0">>>>}

\* the data directory download is called with
DataPaths == {<<"/home/user/downloads">>, <<"output_data/run/data">>}

\* Calls of download: the three calls of a run() whose lookup is done, and a
\* call with a name that is no category, for spelled-out dates and paths,
\* with the counter as earlier downloads of the process may have left it.
InitDownload ==
    /\ test_run \in BOOLEAN
    /\ generate_report = FALSE
    /\ gcp_storage = FALSE
    /\ rm_dir = FALSE
    /\ sites \in {[midas |-> k, tmu |-> 0, tame |-> 0] : k \in 0..MaxUrls}
    /\ NoDirectory
    /\ NoDirection
    /\ \E dates \in DownloadDates : start_date = dates[1] /\ end_date = dates[2]
    /\ NoCall
    /\ data_path \in DataPaths
    /\ NoRerun
    /\ NoFrame
    /\ NoHandler
    /\ NoDates
    /\ pcMain = "download"
    /\ site_name \in {1, Len(CalledNames)}
    /\ generated = [c \in CalledSet |->
                       IF c \in CategorySet
                       THEN SensorMetadata(c, sites[c])
                       ELSE SensorMetadata("midas", sites["midas"])]
    /\ metadata = [c \in CalledSet |->
                      IF test_run THEN TestSlice(generated[c]) ELSE generated[c]]
    /\ files = [c \in CalledSet |-> <<>>]
    /\ queue = <<>>
    /\ total_urls = 0
    /\ COUNTER \in 0..1
    /\ COUNTER_LOCK = 0
    /\ pc = [w \in Workers |-> "idle"]
    /\ item = [w \in Workers |-> NoItem]
    /\ response = [w \in Workers |-> NoResponse]
    /\ pending = [w \in Workers |-> <<>>]
    /\ progressLog = <<>>
    /\ errorLog = {}
    /\ hist = [r \in {} |-> NoHistory]
    /\ run_dir = "created"
    /\ stages = <<"lookup">>
    /\ counter_at_start = 0
    /\ csv_opened = <<>>

NextDownload ==
    \/ StartDownload
    \/ FinishDownload
    \/ NextPhase
    \/ \E w \in Workers : Take(w)
    \/ \E w \in Workers : GetReturns(w)
    \/ \E w \in Workers : GetRaises(w)
    \/ \E w \in Workers : Acquire(w)
    \/ \E w \in Workers : Count(w)
    \/ \E w \in Workers : LogProgress(w)
    \/ \E w \in Workers : Transform(w)
    \/ \E w \in Workers : ToCsv(w)
    \/ \E w \in Workers : CheckStatus(w)
    \/ \E w \in Workers : Wake(w)

SpecDownload == InitDownload /\ [][NextDownload]_vars

\* download is called once more with the arguments of the call that has
\* just returned: same category, dates, directory and request list
Rerun ==
    /\ pcMain = "returned"
    /\ first_file = <<>>
    /\ first_file' = files[SiteName]
    /\ first_hist' = hist
    /\ pcMain' = "download"
    /\ UNCHANGED <<test_run, generate_report, sites, catalogVars, data_path,
                   frameVars, handlerVars, dateVars, csv_opened,
                   counter_at_start, gcp_storage, rm_dir, site_name, generated,
                   metadata, files, queue, total_urls, COUNTER, COUNTER_LOCK,
                   workerVars, logVars, hist, run_dir, stages>>

\* the answers of the upstream in these runs: status 200, with a body of
\* rows or with one that is not the expected JSON
RerunResponses == {resp \in Responses : resp.status = OK_STATUS}

\* the answers that repeat what request r was answered in the first call
SameResponses(r) ==
    {resp \in RerunResponses :
        /\ resp.parses = (first_hist[r].outcome = "ok")
        /\ resp.rows = first_hist[r].rows}

\* Two calls of download for midas with the same arguments, the upstream
\* answering each request in the second call as in the first.
InitRerun ==
    /\ test_run = FALSE
    /\ generate_report = FALSE
    /\ sites \in {[midas |-> k, tmu |-> 0, tame |-> 0] : k \in 0..MaxUrls}
    /\ NoDirectory
    /\ NoDirection
    /\ \E dates \in DownloadDates : start_date = dates[1] /\ end_date = dates[2]
    /\ NoCall
    /\ data_path \in DataPaths
    /\ NoRerun
    /\ NoFrame
    /\ NoHandler
    /\ NoDates
    /\ gcp_storage = FALSE
    /\ rm_dir = FALSE
    /\ pcMain = "download"
    /\ site_name = 1
    /\ generated = [c \in CategorySet |-> SensorMetadata(c, sites[c])]
    /\ metadata = generated
    /\ files = [c \in CategorySet |-> <<>>]
    /\ queue = <<>>
    /\ total_urls = 0
    /\ COUNTER = 0
    /\ COUNTER_LOCK = 0
    /\ pc = [w \in Workers |-> "idle"]
    /\ item = [w \in Workers |-> NoItem]
    /\ response = [w \in Workers |-> NoResponse]
    /\ pending = [w \in Workers |-> <<>>]
    /\ progressLog = <<>>
    /\ errorLog = {}
    /\ hist = [r \in {} |-> NoHistory]
    /\ run_dir = "created"
    /\ stages = <<"lookup">>
    /\ counter_at_start = 0
    /\ csv_opened = <<>>

NextRerun ==
    \/ StartDownload
    \/ FinishDownload
    \/ Rerun
    \/ \E w \in Workers : Take(w)
    \/ \E w \in Workers : first_file = <<>> /\ GetReturnsFrom(w, RerunResponses)
    \/ \E w \in Workers : first_file # <<>> /\ GetReturnsFrom(w, SameResponses(item[w]))
    \/ \E w \in Workers : Acquire(w)
    \/ \E w \in Workers : Count(w)
    \/ \E w \in Workers : LogProgress(w)
    \/ \E w \in Workers : Transform(w)
    \/ \E w \in Workers : ToCsv(w)
    \/ \E w \in Workers : CheckStatus(w)

SpecRerun == InitRerun /\ [][NextRerun]_vars

\* ------------------------------------------------------ _response_to_df
\* _get_headers: the column names written to the first line of a file
GetHeaders ==
    <<"site_id", "site_name", "report_date", "time_period_end", "interval",
      "len_0_520_cm", "len_521_660_cm", "len_661_1160_cm",
      "len_1160_plus_cm", "speed_0_10_mph", "speed_11_15_mph",
      "speed_16_20_mph", "speed_21_25_mph", "speed_26_30_mph",
      "speed_31_35_mph", "speed_36_40_mph", "speed_41_45_mph",
      "speed_46_50_mph", "speed_51_55_mph", "speed_56_60_mph",
      "speed_61_70_mph", "speed_71_80_mph", "speed_80_plus_mph",
      "speed_avg_mph", "total_vol", "longitude", "latitude",
      "sites_status", "type", "direction", "easting", "northing">>

\* the keys of one element of "Rows" in a report body, in the order the API
\* returns them
ApiColumns ==
    <<"Site Name", "Report Date", "Time Period Ending", "Time Interval",
      "0 - 520 cm", "521 - 660 cm", "661 - 1160 cm", "1160+ cm",
      "0 - 10 mph", "11 - 15 mph", "16 - 20 mph", "21 - 25 mph",
      "26 - 30 mph", "31 - 35 mph", "36 - 40 mph", "41 - 45 mph",
      "46 - 50 mph", "51 - 55 mph", "56 - 60 mph", "61 - 70 mph",
      "71 - 80 mph", "80+ mph", "Avg mph", "Total Volume">>

\* the marks of the rows of a body
RowMarks == <<"row 1", "row 2", "row 3", "row 4">>

\* response.json()["Rows"] of a body of n rows: a list of dicts, a dict
\* being its items in order; the value of a key stands for what the API
\* reported under that key in that row
RowsJson(n) ==
    [k \in 1..n |-> [j \in 1..Len(ApiColumns) |-> <<ApiColumns[j], <<ApiColumns[j], RowMarks[k]>>>>]]

\* the keys of a dict, in order
KeysOf(row) == [j \in 1..Len(row) |-> row[j][1]]

\* the keys of a list of dicts in the order they first appear
RECURSIVE UnionKeys(_, _)
UnionKeys(rows, acc) ==
    IF rows = <<>> THEN acc
    ELSE UnionKeys(Tail(rows),
                   acc \o SelectSeq(KeysOf(Head(rows)), LAMBDA k : k \notin Range(acc)))

\* row[key], NaN where the dict has no such key
ValueIn(row, key) ==
    IF \E j \in 1..Len(row) : row[j][1] = key
    THEN row[CHOOSE j \in 1..Len(row) : row[j][1] = key][2]
    ELSE NaN

\* pd.DataFrame.from_dict of a list of dicts: a frame as its column names
\* and its rows of values
FromDict(rows) ==
    LET cols == UnionKeys(rows, <<>>)
    IN [columns |-> cols,
        data |-> [k \in 1..Len(rows) |->
                    [j \in 1..Len(cols) |-> ValueIn(rows[k], cols[j])]]]

\* df.insert(0, name, value) of a name the frame does not have
Insert0(frame, name, value) ==
    [columns |-> <<name>> \o frame.columns,
     data |-> [k \in 1..Len(frame.data) |-> <<value>> \o frame.data[k]]]

\* df.assign(**kwargs): each keyword in order, a column of that name being
\* overwritten where it is and a new one being added as the last column
RECURSIVE Assign(_, _)
Assign(frame, kwargs) ==
    IF kwargs = <<>> THEN frame
    ELSE LET name == Head(kwargs)[1]
             value == Head(kwargs)[2]
             next ==
                 IF name \in Range(frame.columns)
                 THEN [columns |-> frame.columns,
                       data |-> [k \in 1..Len(frame.data) |->
                                   [j \in 1..Len(frame.columns) |->
                                       IF frame.columns[j] = name THEN value
                                       ELSE frame.data[k][j]]]]
                 ELSE [columns |-> Append(frame.columns, name),
                       data |-> [k \in 1..Len(frame.data) |->
                                   Append(frame.data[k], value)]]
         IN Assign(next, Tail(kwargs))

\* a transform that assigns type before sites_status
ResponseToDf_TypeFirst(rows, meta) ==
    Assign(Insert0(FromDict(rows), "site_id", meta.site_id),
           <<<<"longitude", meta.longitude>>,
             <<"latitude", meta.latitude>>,
             <<"type", meta.site_type>>,
             <<"sites_status", meta.status>>,
             <<"direction", meta.direction>>,
             <<"easting", meta.easting>>,
             <<"northing", meta.northing>>>>)

\* _response_to_df: from_dict, insert of site_id at 0, assign of the seven
\* metadata columns
ResponseToDf(rows, meta) ==
    Assign(Insert0(FromDict(rows), "site_id", meta.site_id),
           <<<<"longitude", meta.longitude>>,
             <<"latitude", meta.latitude>>,
             <<"sites_status", meta.status>>,
             <<"type", meta.site_type>>,
             <<"direction", meta.direction>>,
             <<"easting", meta.easting>>,
             <<"northing", meta.northing>>>>)

\* the UrlMetadata of the requests the transform is followed for
UrlMetadatas ==
    {[url |-> <<"url">>, site_id |-> id, site_type |-> type, direction |-> dir,
      longitude |-> <<"-0.320275">>, latitude |-> <<"52.535158">>,
      status |-> status, easting |-> en[1], northing |-> en[2]] :
        id \in {<<"2">>, <<"7">>},
        type \in {<<"midas">>, <<"tmu">>, <<"tame">>},
        dir \in {<<"southbound">>, <<"clockwise">>},
        status \in {<<"Active">>, <<"Inactive">>},
        en \in {<<<<"514029">>, <<"294356">>>>, <<NaN, NaN>>}}

\* get_url: df = _response_to_df(response=response, metadata=metadata)
CallResponseToDf ==
    /\ url_metadata # <<>>
    /\ response_df = <<>>
    /\ response_df' = <<ResponseToDf(rows_json, url_metadata)>>
    /\ UNCHANGED <<programVars, catalogVars, data_path, rerunVars, rows_json,
                   url_metadata, handlerVars, dateVars, csv_opened>>

\* The transforms of every body of up to MaxRows + 1 rows, for every
\* request of UrlMetadatas.
InitFrame ==
    /\ test_run = FALSE
    /\ generate_report = FALSE
    /\ sites = [c \in CategorySet |-> 0]
    /\ NoDirectory
    /\ NoDirection
    /\ NoGenerator
    /\ data_path = <<>>
    /\ NoRerun
    /\ \E n \in 0..(MaxRows + 1) : rows_json = RowsJson(n)
    /\ url_metadata \in UrlMetadatas
    /\ response_df = <<>>
    /\ NoHandler
    /\ NoDates
    /\ Fresh

NextFrame == CallResponseToDf

SpecFrame == InitFrame /\ [][NextFrame]_vars

\* ------------------------------------------------- the dates of run()
\* dt - relativedelta(months=2) of the first day of a month, without the
\* step into the year before
MinusTwoMonths_SameYear(date) ==
    IF date.month - 2 < 1
    THEN [year |-> date.year, month |-> date.month - 2 + 12, day |-> date.day]
    ELSE [year |-> date.year, month |-> date.month - 2, day |-> date.day]

\* dt - relativedelta(months=2): the month goes back by two, into the year
\* before where it has to, and the day is kept if the month has it
MinusTwoMonths(date) ==
    LET month == date.month - 2
        y == IF month < 1 THEN date.year - 1 ELSE date.year
        m == IF month < 1 THEN month + 12 ELSE month
    IN [year |-> y, month |-> m, day |-> Min(date.day, DaysIn(y, m))]

\* run(): the dates of the config when one of them is given, and else the
\* first and the last day of the month two months before this one, written
\* with f"{year}-{month}-..." from the numbers
RunDates(given, now) ==
    IF given[1] = <<>> /\ given[2] = <<>>
    THEN LET date_object_today == [year |-> now.year, month |-> now.month, day |-> 1]
             minus_two_months == MinusTwoMonths(date_object_today)
             year == minus_two_months.year
             month == minus_two_months.month
             last_day_of_month == DaysIn(year, month)
         IN <<IntToStr(year) \o <<"-">> \o IntToStr(month) \o <<"-", "0", "1">>,
              IntToStr(year) \o <<"-">> \o IntToStr(month) \o <<"-">>
                  \o IntToStr(last_day_of_month)>>
    ELSE given

\* run(): start_date and end_date are read from the config and, where both
\* are empty, made from the clock
ReadDates ==
    /\ today # <<>>
    /\ start_date = <<>>
    /\ end_date = <<>>
    /\ LET dates == RunDates(config_dates, today)
       IN /\ start_date' = dates[1]
          /\ end_date' = dates[2]
    /\ UNCHANGED <<programVars, directory, lookup_df, sensor_tables, record,
                   cleaned, sensor_name, sensor_metadata, error, data_path,
                   rerunVars, frameVars, handlerVars, dateVars, csv_opened>>

\* the years and months the clock is read in
ClockYears == {2023, 2024, 2025, 2100}

ClockMonths == 1..12

\* the dates of the checked configs: both empty, both given, one given
ConfigDates ==
    {<<<<>>, <<>>>>,
     <<<<"2", "0", "2", "1", "-", "0", "1", "-", "0", "1">>, <<"2", "0", "2", "1", "-", "0", "1", "-", "3", "1">>>>,
     <<<<"2", "0", "2", "4", "-", "0", "2", "-", "0", "1">>, <<"2", "0", "2", "4", "-", "0", "2", "-", "2", "9">>>>,
     <<<<"2", "0", "2", "1", "-", "0", "1", "-", "0", "1">>, <<>>>>,
     <<<<>>, <<"2", "0", "2", "1", "-", "0", "1", "-", "3", "1">>>>}

\* The dates of run() for every month of the clock and every such config.
InitDates ==
    /\ test_run = FALSE
    /\ generate_report = FALSE
    /\ sites = [c \in CategorySet |-> 0]
    /\ NoDirectory
    /\ NoDirection
    /\ NoGenerator
    /\ data_path = <<>>
    /\ NoRerun
    /\ NoFrame
    /\ NoHandler
    /\ today \in [year : ClockYears, month : ClockMonths]
    /\ config_dates \in ConfigDates
    /\ Fresh

NextDates == ReadDates

SpecDates == InitDates /\ [][NextDates]_vars

\* ------------------------------------------------- file_handler
\* str.split(sep) of a string with the separator as one of its pieces
RECURSIVE SplitOn(_, _)
SplitOn(s, sep) ==
    IF \A i \in 1..Len(s) : s[i] # sep THEN <<s>>
    ELSE LET i == CHOOSE a \in 1..Len(s) :
                      s[a] = sep /\ \A b \in 1..(a - 1) : s[b] # sep
         IN <<SubSeq(s, 1, i - 1)>> \o SplitOn(SubSeq(s, i + 1, Len(s)), sep)

\* sep.join(parts)
RECURSIVE Join(_, _)
Join(parts, sep) ==
    IF parts = <<>> THEN <<>>
    ELSE IF Len(parts) = 1 THEN parts[1]
    ELSE parts[1] \o <<sep>> \o Join(Tail(parts), sep)

\* whether strptime(s, "%Y-%m-%d") accepts the string: four digits of a
\* year, one or two of a month and of a day, and a day the calendar has
StrptimeAccepts(s) ==
    LET fields == SplitOn(s, "-")
    IN /\ Len(fields) = 3
       /\ \A i \in 1..3 : \A j \in 1..Len(fields[i]) : IsDigit(fields[i][j])
       /\ Len(fields[1]) = 4
       /\ Len(fields[2]) \in 1..2
       /\ Len(fields[3]) \in 1..2
       /\ AsInt(fields[1]) >= 1
       /\ AsInt(fields[2]) \in 1..12
       /\ AsInt(fields[3]) \in 1..DaysIn(AsInt(fields[1]), AsInt(fields[2]))

\* strptime(s, "%Y-%m-%d") of an accepted string
StrptimeOf(s) ==
    LET fields == SplitOn(s, "-")
    IN [year |-> AsInt(fields[1]), month |-> AsInt(fields[2]),
        day |-> AsInt(fields[3])]

\* %B of strftime in the C locale
MonthNames ==
    <<"January", "February", "March", "April", "May", "June", "July",
      "August", "September", "October", "November", "December">>

\* strftime("%B-%d-%Y")
StrftimeLong(date, padded) ==
    <<MonthNames[date.month], "-">> \o Pad2(date.day) \o <<"-">>
        \o YearStr(date.year, padded)

\* a number of at most six digits, zero-padded to six
Pad6(n) == Pad2(n \div 10000) \o Pad2((n \div 100) % 100) \o Pad2(n % 100)

\* datetime.strftime("%Y-%m-%d-%H-%M-%S.%f")
RunId(now) ==
    YearStr(now.year, TRUE) \o <<"-">> \o Pad2(now.month) \o <<"-">>
        \o Pad2(now.day) \o <<"-">> \o Pad2(now.hour) \o <<"-">>
        \o Pad2(now.minute) \o <<"-">> \o Pad2(now.second) \o <<".">>
        \o Pad6(now.microsecond)

\* the quotation marks of a string
Quotes == {"\"", "'"}

\* str.strip("\"'")
RECURSIVE StripQuotes(_)
StripQuotes(s) ==
    IF s # <<>> /\ s[1] \in Quotes THEN StripQuotes(Tail(s))
    ELSE IF s # <<>> /\ s[Len(s)] \in Quotes
    THEN StripQuotes(SubSeq(s, 1, Len(s) - 1))
    ELSE s

\* ast.literal_eval of a string: the text between the quotation marks of a
\* string literal, and a SyntaxError for a text that is no literal
LiteralEval(s) ==
    IF /\ Len(s) >= 2
       /\ s[1] \in Quotes
       /\ s[Len(s)] = s[1]
       /\ \A i \in 2..(Len(s) - 1) : s[i] \notin Quotes
    THEN [raised |-> FALSE, value |-> SubSeq(s, 2, Len(s) - 1)]
    ELSE [raised |-> TRUE, value |-> <<>>]

\* str(Path(s)): the names of the path joined by single slashes behind its
\* root, without the empty names, the "." names and a slash at the end; a
\* root of exactly two slashes is kept
PathOf(s) ==
    LET slashes == CHOOSE n \in 0..Len(s) :
                       /\ \A i \in 1..n : s[i] = "/"
                       /\ n < Len(s) => s[n + 1] # "/"
        root == IF slashes = 2 THEN <<"/", "/">>
                ELSE IF slashes >= 1 THEN <<"/">>
                ELSE <<>>
        names == SelectSeq(SplitOn(s, "/"), LAMBDA n : n # <<>> /\ n # <<".">>)
    IN IF root = <<>> /\ names = <<>> THEN <<".">>
       ELSE root \o Join(names, "/")

\* Path.mkdir(parents=True, exist_ok=True): the directory and the
\* directories above it that the call makes sure of, the root left out
MkdirParents(path) ==
    {SubSeq(path, 1, i - 1) : i \in {j \in 2..Len(path) :
                                     path[j] = "/" /\ path[j - 1] # "/"}}
        \cup {path}

\* a file_handler that makes the report directory inside the data directory
FileHandlerPaths_ReportInData(user_output_path, stamp, start, end) ==
    LET run_id_path == user_output_path \o <<"/", "output_data", "/">> \o stamp
                           \o <<"_">> \o start \o <<"_to_">> \o end \o <<"/">>
    IN <<PathOf(run_id_path \o <<"data", "/">>),
         PathOf(run_id_path \o <<"metadata", "/">>),
         PathOf(run_id_path \o <<"data", "/", "report", "/">>),
         run_id_path>>

\* file_handler: the three Paths and the run directory string it returns
FileHandlerPaths(user_output_path, stamp, start, end) ==
    LET run_id_path == user_output_path \o <<"/", "output_data", "/">> \o stamp
                           \o <<"_">> \o start \o <<"_to_">> \o end \o <<"/">>
    IN <<PathOf(run_id_path \o <<"data", "/">>),
         PathOf(run_id_path \o <<"metadata", "/">>),
         PathOf(run_id_path \o <<"report", "/">>),
         run_id_path>>

\* the output_path values of the checked configs: quoted as in a config
\* file, bare as in a request, with a slash at the end, relative, with a
\* root of two slashes, and empty
OutputPaths ==
    {<<"\"", "/", "tmp", "/", "landing_zone", "\"">>,
     <<"'", "/", "/", "srv", "/", "roads", "'">>,
     <<>>,
     <<"/", "tmp", "/", "landing_zone">>,
     <<"~", "/", "data", "/">>,
     <<"'", ".", "/", "out", "'">>,
     <<"\"", "\"">>}

\* the times of the clock of the checked calls
Nows ==
    {[year |-> 2022, month |-> 1, day |-> 31, hour |-> 0, minute |-> 0,
      second |-> 0, microsecond |-> 0],
     [year |-> 2024, month |-> 11, day |-> 4, hour |-> 9, minute |-> 30,
      second |-> 5, microsecond |-> 120034]}

\* the dates file_handler is called with: those of the tests, the default
\* dates of run() and a day no month has
HandlerDates ==
    {<<<<"2", "0", "2", "0", "-", "0", "1", "-", "0", "1">>, <<"2", "0", "2", "0", "-", "0", "1", "-", "3", "1">>>>,
     <<<<"2", "0", "2", "4", "-", "9", "-", "0", "1">>, <<"2", "0", "2", "4", "-", "9", "-", "3", "0">>>>,
     <<<<"2", "0", "2", "1", "-", "0", "2", "-", "0", "1">>, <<"2", "0", "2", "1", "-", "0", "2", "-", "3", "0">>>>}

\* file_handler(config, api_run, start_date, end_date) at the time now: it
\* raises for a date strptime rejects, for an output path that is no
\* literal in local mode and for an empty output path, before any
\* directory is made
FileHandler ==
    /\ run_id = <<>>
    /\ start_date # <<>>
    /\ end_date # <<>>
    /\ output_path \in OutputPaths
    /\ \E now \in Nows, padded \in BOOLEAN :
        /\ run_id' = RunId(now)
        /\ LET dates_ok == StrptimeAccepts(start_date) /\ StrptimeAccepts(end_date)
               read == IF api_run
                       THEN [raised |-> FALSE, value |-> StripQuotes(output_path)]
                       ELSE LiteralEval(output_path)
           IN IF ~dates_ok \/ read.raised \/ read.value = <<>>
              THEN UNCHANGED <<made_dirs, handler_paths>>
              ELSE LET paths == FileHandlerPaths(read.value, RunId(now),
                                    StrftimeLong(StrptimeOf(start_date), padded),
                                    StrftimeLong(StrptimeOf(end_date), padded))
                   IN /\ made_dirs' = made_dirs \cup MkdirParents(paths[1])
                                          \cup MkdirParents(paths[2])
                                          \cup MkdirParents(paths[3])
                      /\ handler_paths' = paths
    /\ UNCHANGED <<programVars, catalogVars, data_path, rerunVars, frameVars,
                   output_path, api_run, dateVars, csv_opened>>

\* One call of file_handler for every such config, mode and pair of dates.
InitFiles ==
    /\ test_run = FALSE
    /\ generate_report = FALSE
    /\ sites = [c \in CategorySet |-> 0]
    /\ NoDirectory
    /\ NoDirection
    /\ NoCall
    /\ \E dates \in HandlerDates :
        /\ start_date = dates[1]
        /\ end_date = dates[2]
    /\ data_path = <<>>
    /\ NoRerun
    /\ NoFrame
    /\ NoDates
    /\ output_path \in OutputPaths
    /\ api_run \in BOOLEAN
    /\ run_id = <<>>
    /\ made_dirs = {}
    /\ handler_paths = <<>>
    /\ Fresh

NextFiles == FileHandler

SpecFiles == InitFiles /\ [][NextFiles]_vars

\* A run over one midas request and a long tmu list, in which a single pool
\* thread serves every work item and the upstream answers every report with
\* 200 and a body of MaxRows rows: some of the behaviours of run(), enough to
\* follow the counter through phases of twenty and more requests.
InitLong ==
    /\ test_run = FALSE
    /\ generate_report \in BOOLEAN
    /\ gcp_storage = FALSE
    /\ rm_dir = FALSE
    /\ sites \in {[midas |-> 1, tmu |-> n, tame |-> 0] :
                    n \in LongPhase..(LongPhase + 1)}
    /\ NoCatalog
    /\ pcMain = "lookup"
    /\ site_name = 1
    /\ generated = [c \in CategorySet |-> <<>>]
    /\ metadata = [c \in CategorySet |-> <<>>]
    /\ files = [c \in CategorySet |-> <<>>]
    /\ queue = <<>>
    /\ total_urls = 0
    /\ COUNTER = 0
    /\ COUNTER_LOCK = 0
    /\ pc = [w \in Workers |-> "idle"]
    /\ item = [w \in Workers |-> NoItem]
    /\ response = [w \in Workers |-> NoResponse]
    /\ pending = [w \in Workers |-> <<>>]
    /\ progressLog = <<>>
    /\ errorLog = {}
    /\ hist = [r \in {} |-> NoHistory]
    /\ run_dir = "created"
    /\ stages = <<>>
    /\ counter_at_start = 0
    /\ csv_opened = <<>>

PlainResponses == {[status |-> OK_STATUS, parses |-> TRUE, rows |-> MaxRows]}

NextLong ==
    \/ Lookup
    \/ StartDownload
    \/ FinishDownload
    \/ NextPhase
    \/ Report
    \/ DumpConfig
    \/ Upload
    \/ RmTree
    \/ Take(1)
    \/ GetReturnsFrom(1, PlainResponses)
    \/ Acquire(1)
    \/ Count(1)
    \/ LogProgress(1)
    \/ Transform(1)
    \/ ToCsv(1)
    \/ CheckStatus(1)

SpecLong == InitLong /\ [][NextLong]_vars

\* ---------------------------------------------------------------- claims
\* the requests handed to the pool in the phase that is running or has just
\* returned
PhaseRequests == Range(metadata[SiteName])

PhaseFile == files[SiteName]

PhaseReturned == pcMain = "returned"

\* the pieces of one response as they stand in a file nobody else writes to
ExpectedPieces(id, rows) ==
    [i \in 1..(rows * RowParts) |->
        [site_id |-> id,
         row |-> ((i - 1) \div RowParts) + 1,
         part |-> ((i - 1) % RowParts) + 1]]

\* row k of site id stands unbroken in f from position i on
IntactAt(f, i, id, k) ==
    \A p \in 1..RowParts :
        /\ i + p - 1 <= Len(f)
        /\ f[i + p - 1] = [site_id |-> id, row |-> k, part |-> p]

\* C1: appends of concurrent workers never interleave: in every file the
\* pieces written for one response are contiguous, and a line that has been
\* started is continued by the next piece of the same row only.
C1_AppendsNeverInterleave ==
    \A c \in CategorySet :
        LET f == files[c] IN
        /\ \A i, k \in 1..Len(f) :
              (i < k /\ f[i].site_id = f[k].site_id)
                  => \A j \in i..k : f[j].site_id = f[i].site_id
        /\ \A i \in 1..(Len(f) - 1) :
              (f[i].part # 0 /\ f[i].part # RowParts)
                  => f[i + 1] = [site_id |-> f[i].site_id,
                                 row |-> f[i].row,
                                 part |-> f[i].part + 1]

\* C2: when a download that is not a test run returns and every body parsed,
\* exactly one GET was issued per request, and the file is the header
\* followed by exactly the rows of the responses, each row once and unbroken.
C2_FileHoldsHeaderAndAllRows ==
    (PhaseReturned /\ ~test_run
        /\ \A r \in PhaseRequests : hist[r].outcome = "ok")
    => LET f == PhaseFile
           total == SumOver([r \in PhaseRequests |-> hist[r].rows], PhaseRequests)
           LineStart(m) == 2 + RowParts * (m - 1)
       IN /\ SumOver([r \in PhaseRequests |-> hist[r].gets], PhaseRequests)
                 = Len(metadata[SiteName])
          /\ Len(f) = 1 + RowParts * total
          /\ f[1] = Header
          /\ \A r \in PhaseRequests : \A k \in 1..hist[r].rows :
                Cardinality({m \in 1..total :
                    IntactAt(f, LineStart(m), r.site_id, k)}) = 1

\* C3: a failed request is confined to itself: when download returns, a
\* request whose GET raised or whose body did not parse has no piece in the
\* file, every other request has all its rows in the file in the order of
\* its response, download has returned without raising (only the site lookup
\* can abort a run), and a run that is done has gone through all three
\* phases, the config dump, and the report, upload and removal it was
\* configured for.
C3_FailureIsConfined ==
    /\ PhaseReturned =>
          \A r \in PhaseRequests :
             /\ hist[r].outcome \in {"transport", "malformed", "ok"}
             /\ hist[r].outcome \in {"transport", "malformed"}
                   => SelectPieces(PhaseFile, r.site_id) = <<>>
             /\ hist[r].outcome = "ok"
                   => SelectPieces(PhaseFile, r.site_id)
                         = ExpectedPieces(r.site_id, hist[r].rows)
    /\ pcMain = "aborted" => stages = <<>>
    /\ pcMain = "done" =>
          /\ SubSeq(stages, 1, 4) = <<"lookup", "midas", "tmu", "tame">>
          /\ "dump_config" \in Range(stages)
          /\ ("report" \in Range(stages)) <=> generate_report
          /\ ("upload" \in Range(stages)) <=> gcp_storage
          /\ ("rmtree" \in Range(stages)) <=> rm_dir

\* C3 witness: a phase has returned in which one request failed and another
\* one had its rows written.
C3_Witness ==
    /\ PhaseReturned
    /\ \E r \in PhaseRequests : hist[r].outcome \in {"transport", "malformed"}
    /\ \E r \in PhaseRequests :
          /\ hist[r].outcome = "ok"
          /\ hist[r].rows >= 1
          /\ SelectPieces(PhaseFile, r.site_id) # <<>>

\* C4: the progress counter is 0 when a download phase starts, never exceeds
\* the number of requests of the running phase, and no progress line reports
\* a negative number of remaining requests.
C4_CounterZeroAtPhaseStart ==
    /\ pcMain = "download" => COUNTER = 0
    /\ pcMain = "pool" => COUNTER <= total_urls
    /\ \A i \in 1..Len(progressLog) : progressLog[i].remaining >= 0

\* C5: when download returns, the counter was incremented exactly once for
\* every request handed to a worker, whatever the request's outcome, so it
\* has advanced by the number of requests.
C5_CounterOncePerRequest ==
    PhaseReturned =>
        /\ \A r \in PhaseRequests : hist[r].incs = 1
        /\ COUNTER = counter_at_start + Len(metadata[SiteName])

\* the progress lines written for requests of the phase
PhaseProgressLines ==
    SelectSeq(progressLog,
              LAMBDA l : \E r \in PhaseRequests : r.site_id = l.site_id)

\* C6: in a phase of N >= 1 requests a progress line is written when the
\* number of requests processed in the phase reaches k, for every k that is
\* a multiple of max(1, N div 10) and for k = N (the final request), so a
\* phase that has returned has written at least one progress line.
C6_ProgressLinesOfPhase ==
    (PhaseReturned /\ Len(metadata[SiteName]) >= 1) =>
        LET N == Len(metadata[SiteName])
            step == IF N \div 10 >= 1 THEN N \div 10 ELSE 1
            due == {k \in 1..N : k % step = 0 \/ k = N}
            lines == PhaseProgressLines
        IN /\ \A k \in due :
                 \E i \in 1..Len(lines) :
                     lines[i].processed - counter_at_start = k
           /\ Len(lines) >= 1

\* C7 as stated: in a test run, for every size of the generated list,
\* exactly one request is processed and it is the one at index 1.
C7_ExactlyOneForEverySize ==
    (PhaseReturned /\ test_run) =>
        LET g == generated[SiteName] IN
        /\ Len(g) >= 2
        /\ hist[g[2]].gets = 1
        /\ \A i \in 1..Len(g) : i # 2 => hist[g[i]].gets = 0

\* C7 amended: in a test run, a generated list of two or more requests has
\* exactly its request at index 1 processed, once, and no other request is
\* issued; a list of fewer than two requests has none processed.
C7_TestRunSlice ==
    (PhaseReturned /\ test_run) =>
        LET g == generated[SiteName] IN
        /\ Len(g) >= 2 =>
              /\ hist[g[2]].gets = 1
              /\ hist[g[2]].outcome # "none"
              /\ \A i \in 1..Len(g) : i # 2 => hist[g[i]].gets = 0
        /\ Len(g) < 2 => \A i \in 1..Len(g) : hist[g[i]].gets = 0

\* C7 witness: a test-run phase over three generated requests has returned
\* after processing the one at index 1.
C7_Witness ==
    /\ PhaseReturned
    /\ test_run
    /\ Len(generated[SiteName]) >= 3
    /\ hist[generated[SiteName][2]].gets = 1

\* C8: a worker that got a response with a status in 500..599 returns only
\* out of the cooldown sleep, whether or not the body parsed.
C8_CooldownOnEvery5xx ==
    [][\A w \in Workers :
          (pc[w] # "idle" /\ pc'[w] = "idle"
              /\ response[w].status >= 500 /\ response[w].status <= 599)
          => pc[w] = "sleep"]_vars

\* C9: when download returns, every request that failed (its GET raised or
\* its body did not parse) has a log entry that records the failure.
C9_NoSilentFailure ==
    PhaseReturned =>
        \A r \in PhaseRequests :
            hist[r].outcome \in {"transport", "malformed"}
                => \E e \in errorLog : e.site_id = r.site_id

\* C10: when a worker is through with a response, the error log holds an
\* entry with that status and URL exactly if the status is outside 200..299.
C10_ErrorLogIffNot2xx ==
    [][\A w \in Workers :
          (pc[w] # "idle" /\ pc'[w] = "idle" /\ response[w] # NoResponse)
          => (([status |-> response[w].status, site_id |-> item[w].site_id]
                  \in errorLog')
              <=> ~(response[w].status >= 200 /\ response[w].status <= 299))]_vars

\* C11: a response with a status outside 200..299 whose body parses is
\* processed like a 2xx response: once its worker is past the append, all
\* its rows are in the category's file, in order, and the phase is still
\* running.
C11_Non2xxBodyIsAppended ==
    \A w \in Workers :
        (pc[w] \in {"status", "sleep"} /\ response[w].parses
            /\ ~(response[w].status >= 200 /\ response[w].status <= 299))
        => /\ SelectPieces(files[item[w].site_type], item[w].site_id)
                 = ExpectedPieces(item[w].site_id, response[w].rows)
           /\ pcMain = "pool"

\* C11 witness: a worker is in the cooldown of a 503 response whose row has
\* been written to the file.
C11_Witness ==
    \E w \in Workers :
        /\ pc[w] = "sleep"
        /\ response[w].status = 503
        /\ response[w].rows >= 1
        /\ SelectPieces(files[item[w].site_type], item[w].site_id) # <<>>

\* C12: a download that has started eventually returns, whatever the
\* request list, and when it has returned the work queue is empty, every
\* request of the list was handed to a worker and no worker is running.
C12_DownloadReturns ==
    /\ [](pcMain = "pool" => <>(pcMain = "returned"))
    /\ [](pcMain = "returned" =>
             /\ queue = <<>>
             /\ \A r \in PhaseRequests : hist[r].gets = 1
             /\ \A w \in Workers : pc[w] = "idle" /\ item[w] = NoItem)

\* C12 witness: a download over two requests has returned.
C12_Witness ==
    /\ PhaseReturned
    /\ total_urls = 2
    /\ \A r \in PhaseRequests : hist[r].gets = 1

\* C13: the phases run one after another in the order midas, tmu, tame: a
\* working thread or a queued request belongs to the category whose download
\* is running, the file of a category is not opened before the download of
\* the category before it has returned, and the downloads are started in
\* that order.
C13_PhasesAreSequential ==
    /\ \A w \in Workers :
          pc[w] # "idle" => (pcMain = "pool" /\ item[w].site_type = SiteName)
    /\ \A i \in 1..Len(queue) :
          pcMain = "pool" /\ queue[i].site_type = SiteName
    /\ \A i \in 1..Len(Categories) :
          (i > site_name \/ (i = site_name /\ pcMain \in {"lookup", "download"}))
              => files[Categories[i]] = <<>>
    /\ \A i \in 1..Len(stages) :
          i <= 4 => stages[i] = <<"lookup", "midas", "tmu", "tame">>[i]

\* C13 witness: a tmu worker is running after the midas file was written.
C13_Witness ==
    /\ pcMain = "pool"
    /\ SiteName = "tmu"
    /\ files["midas"] # <<>>
    /\ \E w \in Workers : pc[w] = "get" /\ item[w].site_type = "tmu"

\* C14: in every file the rows of one site's response stand in the order of
\* the response: of two pieces of the same site, the earlier one in the file
\* is of an earlier row, or of the same row and an earlier part.
C14_RowsOfOneSiteKeepOrder ==
    \A c \in CategorySet :
        LET f == files[c] IN
        \A i, j \in 1..Len(f) :
            (i < j /\ f[i].site_id = f[j].site_id)
                => \/ f[i].row < f[j].row
                   \/ (f[i].row = f[j].row /\ f[i].part < f[j].part)

\* C14 witness: the two rows of the first site are in the file after a row
\* of the second site.
C14_Witness ==
    LET f == files["midas"] IN
    \E i, j, k \in 1..Len(f) :
        /\ i < j /\ j < k
        /\ f[i].site_id = 2
        /\ f[j].site_id = 1 /\ f[j].row = 1
        /\ f[k].site_id = 1 /\ f[k].row = 2

\* a request of the phase that has finished its append step or has failed
Finished(r) ==
    \/ hist[r].outcome \in {"transport", "malformed"}
    \/ /\ hist[r].outcome = "ok"
       /\ ~\E w \in Workers : item[w] = r /\ pc[w] = "to_csv"

\* C15: the counter counts completed requests: while a phase runs, the
\* number of increments of the phase is at most the number of its requests
\* that have finished their append step or have failed, and so is the count
\* of every progress line of the phase.
C15_CounterCountsCompleted ==
    pcMain = "pool" =>
        LET done == Cardinality({r \in PhaseRequests : Finished(r)}) IN
        /\ COUNTER - counter_at_start <= done
        /\ \A i \in 1..Len(PhaseProgressLines) :
              PhaseProgressLines[i].processed - counter_at_start <= done

\* C16: increment and read of the counter are one critical section: at most
\* one thread is between the acquire and the release of the lock, and it is
\* the holder; the count of a progress line is the value the increment of
\* its own request gave; the counts of the log are strictly increasing.
C16_CounterCriticalSection ==
    /\ Cardinality({w \in Workers : pc[w] \in {"counter", "log"}}) <= 1
    /\ \A w \in Workers : pc[w] \in {"counter", "log"} <=> COUNTER_LOCK = w
    /\ \A i \in 1..Len(PhaseProgressLines) :
          \E r \in PhaseRequests :
              /\ r.site_id = PhaseProgressLines[i].site_id
              /\ hist[r].count = PhaseProgressLines[i].processed
    /\ \A i, j \in 1..Len(progressLog) :
          i < j => progressLog[i].processed < progressLog[j].processed

\* C16 witness: a thread waits for the lock while the holder, whose
\* increment gave the count 2, is about to write its progress line after
\* the line of the first request.
C16_Witness ==
    /\ Len(PhaseProgressLines) = 1
    /\ \E w \in Workers :
          pc[w] = "log" /\ COUNTER_LOCK = w /\ hist[item[w]].count = 2

C18_BlockedWorkerHoldsNoLock ==
    /\ \A w \in Workers :
          pc[w] \in {"get", "to_csv", "sleep"} => COUNTER_LOCK # w
    /\ COUNTER_LOCK # 0 => pc[COUNTER_LOCK] \in {"counter", "log"}
    /\ \A w \in Workers :
          pc[w] = "lock" =>
              \/ ENABLED Acquire(w)
              \/ \E v \in Workers : v # w /\ (ENABLED Count(v) \/ ENABLED LogProgress(v))

\* C18 witness: one thread is in the cooldown while another is inside the
\* counter block.
C18_Witness ==
    \E w, v \in Workers : pc[w] = "sleep" /\ pc[v] = "log" /\ COUNTER_LOCK = v

\* the buckets that hold the record with the given id
BucketsOf(id) ==
    {b \in Buckets : \E k \in 1..Len(sensor_tables[b]) : sensor_tables[b][k].id = id}

\* C19: after the lookup every record is in exactly one of the four buckets:
\* in midas, tmu or tame exactly when the classification of its name
\* returned that label, and in other in every remaining case.
C19_EachRecordInItsBucket ==
    lookup_df # <<>> =>
        \A i \in 1..Len(directory) :
            LET returned == lookup_df[i].name IN
            /\ Cardinality(BucketsOf(i)) = 1
            /\ "midas" \in BucketsOf(i) <=> returned = LabelMidas
            /\ "tmu" \in BucketsOf(i) <=> returned = LabelTmu
            /\ "tame" \in BucketsOf(i) <=> returned = LabelTame
            /\ "other" \in BucketsOf(i)
                  <=> returned \notin {LabelMidas, LabelTmu, LabelTame}

\* C20: the classification is a case-sensitive substring match in the
\* priority MIDAS, TMU, TAME, "Legacy Site": the cleaned name of every record
\* is the label of the first keyword its name contains, and the name itself
\* when it contains none.
C20_KeywordPriority ==
    lookup_df # <<>> =>
        \A i \in 1..Len(directory) :
            LET name == directory[i].name
                has(k) == IsSubstring(k, name)
                out == lookup_df[i].name
            IN /\ has(MIDAS) => out = LabelMidas
               /\ (~has(MIDAS) /\ has(TMU)) => out = LabelTmu
               /\ (~has(MIDAS) /\ ~has(TMU) /\ has(TAME)) => out = LabelTame
               /\ (~has(MIDAS) /\ ~has(TMU) /\ ~has(TAME) /\ has(LEGACY_SITE))
                     => out = LEGACY_SITE
               /\ (~has(MIDAS) /\ ~has(TMU) /\ ~has(TAME) /\ ~has(LEGACY_SITE))
                     => out = name

\* C20 witness: a name with TAME before TMU was classified tmu.
C20_Witness ==
    /\ Len(lookup_df) = 1
    /\ directory[1].name = TAME \o TMU \o GpsRef
    /\ lookup_df[1].name = LabelTmu

\* the table of direction keywords, in the order the claim lists them
DirectionTable ==
    <<[key |-> DirEastbound, word |-> DirEastbound],
      [key |-> DirNorthbound, word |-> DirNorthbound],
      [key |-> DirSouthbound, word |-> DirSouthbound],
      [key |-> DirWestbound, word |-> DirWestbound],
      [key |-> DirClockwise, word |-> DirClockwise],
      [key |-> DirAntiClockwise, word |-> DirClockwise],
      [key |-> DirLegacySite, word |-> DirLegacySite],
      [key |-> DirOnConnector, word |-> DirCarriagewayConnector]>>

\* the rows of the table whose keyword the string contains
Hits(s) == {i \in 1..Len(DirectionTable) : IsSubstring(DirectionTable[i].key, s)}

\* C21 as stated: a string that contains a keyword of the table is mapped to
\* the word of that keyword, and a string that contains none is returned
\* unchanged.
C21_EveryKeywordGivesItsWord ==
    cleaned # <<>> =>
        /\ \A i \in Hits(record) : cleaned[1] = DirectionTable[i].word
        /\ Hits(record) = {} => cleaned[1] = record

\* C21 amended: a string is mapped to the word of the first keyword of the
\* table it contains, in the order eastbound, northbound, southbound,
\* westbound, clockwise, anti-clockwise, legacy site, on connector; a string
\* that contains none is returned unchanged.
C21_FirstKeywordGivesItsWord ==
    cleaned # <<>> =>
        IF Hits(record) = {} THEN cleaned[1] = record
        ELSE cleaned[1] =
                DirectionTable[CHOOSE i \in Hits(record) :
                                   \A j \in Hits(record) : i <= j].word

\* C21 witness: a string with northbound before eastbound was mapped to
\* eastbound.
C21_Witness ==
    /\ record = DirNorthbound \o DirEastbound
    /\ cleaned # <<>>
    /\ cleaned[1] = DirEastbound

\* C22: cleaning a direction string twice gives what cleaning it once gives.
C22_CleanerIsIdempotent ==
    Len(cleaned) = 2 => cleaned[2] = cleaned[1]

\* C22 witness: a string with "on connector" was cleaned twice and is
\* "carriageway connector" both times.
C22_Witness ==
    /\ Len(cleaned) = 2
    /\ IsSubstring(DirOnConnector, record)
    /\ cleaned[1] = DirCarriagewayConnector
    /\ cleaned[2] = DirCarriagewayConnector

\* the name of the scenario of C23
ScenarioName == <<"M", "I", "D", "A", "S", " ", "s", "i", "t", "e", " ", ".", ".", ".", " ", "G", "P", "S", " ", "R", "e", "f", ":", " ", "5", "1", "4", "0", "2", "9", ";", "2", "9", "4", "3", "5", "6", ";", " ", "S", "o", "u", "t", "h", "b", "o", "u", "n", "d">>

\* the row that the lookup made of the i-th record is in the bucket
InBucket(b, i) ==
    \E k \in 1..Len(sensor_tables[b]) : sensor_tables[b][k] = lookup_df[i]

\* the C23 record apart from its status: id 2, category midas and in the
\* midas bucket only, direction southbound, easting 514029, northing 294356
ScenarioRow(i) ==
    /\ lookup_df[i].id = 2
    /\ lookup_df[i].name = LabelMidas
    /\ \A b \in Buckets : InBucket(b, i) <=> b = "midas"
    /\ lookup_df[i].direction = DirSouthbound
    /\ lookup_df[i].easting = <<"5", "1", "4", "0", "2", "9">>
    /\ lookup_df[i].northing = <<"2", "9", "4", "3", "5", "6">>

\* C23 as stated: the record with id 2, the scenario's name and Status
\* "Active" becomes a row with category midas, direction southbound, easting
\* 514029, northing 294356 and status "active".
C23_ScenarioRecord ==
    lookup_df # <<>> =>
        \A i \in 1..Len(directory) :
            directory[i] = Site(<<"2">>, ScenarioName, "Active")
                => (ScenarioRow(i) /\ lookup_df[i].status = "active")

\* C23 amended: the same row, whose status is the payload's "Active" as it
\* came.
C23_ScenarioRecordKeepsStatus ==
    lookup_df # <<>> =>
        \A i \in 1..Len(directory) :
            directory[i] = Site(<<"2">>, ScenarioName, "Active")
                => (ScenarioRow(i) /\ lookup_df[i].status = directory[i].status)

\* C23 witness: the lookup of the payload that holds the scenario's record
\* alone has returned.
C23_Witness ==
    /\ directory = <<Site(<<"2">>, ScenarioName, "Active")>>
    /\ Len(lookup_df) = 1
    /\ Len(sensor_tables["midas"]) = 1

\* the two numbers around the first ";" of the name that has a digit on
\* both sides, NaN twice when the name has no such ";"
FirstCoordinates(s) ==
    LET semis == {b \in 2..(Len(s) - 1) :
                    s[b] = ";" /\ IsDigit(s[b - 1]) /\ IsDigit(s[b + 1])}
    IN IF semis = {} THEN <<NaN, NaN>>
       ELSE LET b == CHOOSE x \in semis : \A y \in semis : x <= y
                a == CHOOSE x \in 1..(b - 1) :
                        /\ \A k \in x..(b - 1) : IsDigit(s[k])
                        /\ (x = 1 \/ ~IsDigit(s[x - 1]))
                c == CHOOSE x \in (b + 1)..Len(s) :
                        /\ \A k \in (b + 1)..x : IsDigit(s[k])
                        /\ (x = Len(s) \/ ~IsDigit(s[x + 1]))
            IN <<SubSeq(s, a, b - 1), SubSeq(s, b + 1, c)>>

\* C24: once the lookup of a payload is over, every record of the payload
\* has a row whose easting and northing are the two numbers of the first
\* "digits;digits" of its name, and NaN twice when the name has none; the
\* row is in a bucket all the same.
C24_CoordinatesOrNull ==
    (directory # <<>> /\ (lookup_df # <<>> \/ pcMain = "aborted")) =>
        /\ Len(lookup_df) = Len(directory)
        /\ \A i \in 1..Len(directory) :
              /\ <<lookup_df[i].easting, lookup_df[i].northing>>
                    = FirstCoordinates(directory[i].name)
              /\ \E b \in Buckets : InBucket(b, i)

DayMonthYear(s) == SubSeq(s, 9, 10) \o SubSeq(s, 6, 7) \o SubSeq(s, 1, 4)

\* the URL of the claim for two dates written YYYY-MM-DD and a site id
ClaimedUrl(start, end, id) ==
    BASE_URL \o <<"r", "e", "p", "o", "r", "t", "s", "/">> \o DayMonthYear(start) \o <<"/", "t", "o", "/">>
    \o DayMonthYear(end) \o <<"/", "d", "a", "i", "l", "y", "?", "s", "i", "t", "e", "s", "=">> \o IntToStr(id)
    \o <<"&", "p", "a", "g", "e", "=", "1", "&", "p", "a", "g", "e", "_", "s", "i", "z", "e", "=", "4", "0", "0", "0", "0">>

\* the request lists have been made
UrlsMade == pcMain = "download" /\ lookup_df # <<>> /\ start_date # <<>>

\* C26: for valid dates written YYYY-MM-DD every generated request has the
\* URL <base>reports/<DDMMYYYY of start>/to/<DDMMYYYY of end>/daily?sites=
\* <id>&page=1&page_size=40000, day and month in two digits.
C26_UrlOfDatesAndSite ==
    UrlsMade =>
        \A c \in CategorySet : \A i \in 1..Len(generated[c]) :
            generated[c][i][1]
                = ClaimedUrl(start_date, end_date, sensor_tables[c][i].id)

\* C27: each of the three lists has one request per row of its bucket, in
\* bucket order; the i-th request has the URL for the i-th row's id and then
\* that row's id, type, direction, longitude, latitude, status, easting and
\* northing; rows that repeat give requests that repeat.
C27_OneRequestPerRecord ==
    UrlsMade =>
        \A c \in CategorySet :
            /\ Len(generated[c]) = Len(sensor_tables[c])
            /\ \A i \in 1..Len(generated[c]) :
                  LET req == generated[c][i]
                      row == sensor_tables[c][i]
                  IN /\ IsSubstring(<<"?", "s", "i", "t", "e", "s", "=">> \o IntToStr(row.id) \o <<"&">>, req[1])
                     /\ req[2] = row.id
                     /\ req[3] = row.name
                     /\ req[4] = row.direction
                     /\ req[5] = row.longitude
                     /\ req[6] = row.latitude
                     /\ req[7] = row.status
                     /\ req[8] = row.easting
                     /\ req[9] = row.northing

\* C27 witness: a payload with the same midas record twice gave two equal
\* midas requests.
C27_Witness ==
    /\ UrlsMade
    /\ Len(directory) = 2
    /\ directory[1] = directory[2]
    /\ Len(generated["midas"]) = 2
    /\ generated["midas"][1] = generated["midas"][2]

\* C28: a call for a category outside midas, tmu, tame raises and returns
\* no list; a call for one of the three does not raise and returns one
\* request per row of the bucket.
C28_InvalidCategoryRaises ==
    sensor_name # "unset" =>
        IF sensor_name \in {"midas", "tmu", "tame"}
        THEN error = "none" /\ Len(sensor_metadata) = Len(sensor_tables[sensor_name])
        ELSE error = "ValueError" /\ sensor_metadata = <<>>

\* C28 witness: the call for "other" raised although the other bucket has
\* a row.
C28_Witness ==
    /\ sensor_name = "other"
    /\ error = "ValueError"
    /\ sensor_tables["other"] # <<>>

\* C29: a category's file that has been opened begins with the header and
\* holds it nowhere else, so every data row comes after it; the file of the
\* running phase is opened, and has its header, before a thread of the phase
\* takes a request.
C29_HeaderOnceAndFirst ==
    /\ \A c \in CategorySet :
          files[c] # <<>> =>
              /\ files[c][1] = Header
              /\ \A i \in 2..Len(files[c]) : files[c][i] # Header
    /\ pcMain \in {"pool", "returned"} => files[SiteName] # <<>>
    /\ \A w \in Workers :
          pc[w] # "idle" => files[item[w].site_type] # <<>>

\* C29 witness: threads have appended the rows of two sites after the
\* header.
C29_Witness ==
    /\ Len(files["midas"]) >= 3
    /\ files["midas"][1] = Header
    /\ \E i, j \in 2..Len(files["midas"]) :
          files["midas"][i].site_id # files["midas"][j].site_id

\* C30: a lookup that does not succeed ends the run: from the lookup, a
\* step that does not record the lookup as done leaves run() aborted, and
\* in an aborted run no file was opened, no request was queued, taken or
\* counted, and no later stage was entered.
C30_FailedLookupAborts ==
    /\ [][(pcMain = "lookup" /\ stages' = stages) => pcMain' \in {"lookup", "aborted"}]_vars
    /\ [](pcMain = "aborted" =>
            /\ \A c \in CategorySet : files[c] = <<>> /\ metadata[c] = <<>>
            /\ queue = <<>>
            /\ DOMAIN hist = {}
            /\ \A w \in Workers : pc[w] = "idle"
            /\ COUNTER = 0
            /\ stages = <<>>)

\* C30 witness: the lookup of a directory with sites failed and the run is
\* aborted.
C30_Witness ==
    /\ pcMain = "aborted"
    /\ sites["midas"] >= 1
    /\ stages = <<>>

\* C32: each row of a file carries the site id and the metadata of the one
\* request it was parsed from, under every interleaving: a line that has
\* been started is continued by a piece of the same request, every piece
\* belongs to a request of the file's category, and the request lists are
\* not changed once they are generated.
C32_RowsCarryOwnMetadata ==
    /\ [](\A c \in CategorySet :
            LET f == files[c] IN
            /\ \A i \in 2..Len(f) :
                  \E r \in Range(metadata[c]) :
                      r.site_id = f[i].site_id /\ r.site_type = c
            /\ \A i \in 2..(Len(f) - 1) :
                  f[i].part # RowParts => f[i + 1].site_id = f[i].site_id)
    /\ [][pcMain # "lookup" =>
            (metadata' = metadata /\ generated' = generated)]_vars

\* the positions of stage x in the stages run() went through
StageAt(x) == {i \in 1..Len(stages) : stages[i] = x}

C35_EachRequestOnce ==
    /\ \A r \in DOMAIN hist : hist[r].gets <= 1
    /\ \A v, w \in Workers :
          (v # w /\ item[v] # NoItem) => item[v] # item[w]
    /\ \A i, j \in 1..Len(queue) : i # j => queue[i] # queue[j]
    /\ \A w \in Workers : \A i \in 1..Len(queue) : queue[i] # item[w]
    /\ \A w \in Workers : pc[w] \notin {"idle", "get"} => hist[item[w]].gets = 1
    /\ pcMain = "pool" =>
          \A r \in PhaseRequests :
              \/ (r \in Range(queue) /\ hist[r].gets = 0)
              \/ \E w \in Workers : item[w] = r
              \/ (hist[r].gets = 1 /\ r \notin Range(queue))
    /\ PhaseReturned => \A r \in PhaseRequests : hist[r].gets = 1
    /\ pcMain \in {"pool", "returned"} =>
          \A r \in DOMAIN hist : r \notin PhaseRequests => hist[r].gets = 0

\* C35 witness: a download over two requests has returned; the GET of one
\* raised, the other was answered 503, and each had one GET.
C35_Witness ==
    /\ PhaseReturned
    /\ total_urls = 2
    /\ \E r, s \in PhaseRequests :
          /\ hist[r].outcome = "transport" /\ hist[r].gets = 1
          /\ hist[s].gets = 1
          /\ [status |-> 503, site_id |-> s.site_id] \in errorLog

\* the name the file of category c is to have
ClaimedCsvName(c) ==
    data_path \o <<"/", c, "_">> \o start_date \o <<"-">> \o end_date
        \o (IF test_run THEN <<"_TEST_RUN">> ELSE <<>>) \o <<".csv">>

\* C36: the file a download opens is <data dir>/<category>_<start>-<end>.csv
\* with the dates as they were given, it carries _TEST_RUN before .csv
\* exactly in a test run, every download that started has opened its file,
\* and no two downloads of the run have opened the same name.
C36_OutputFileName ==
    /\ Len(csv_opened) = Len(stages) - 1
    /\ \A i \in 1..Len(csv_opened) :
          LET name == csv_opened[i] IN
          /\ name = ClaimedCsvName(stages[i + 1])
          /\ name[Len(name)] = ".csv"
          /\ (name[Len(name) - 1] = "_TEST_RUN") <=> test_run
          /\ files[stages[i + 1]] # <<>>
    /\ \A i, j \in 1..Len(csv_opened) : i # j => csv_opened[i] # csv_opened[j]

\* C36 witness: the three downloads of a test run have opened their files,
\* the first of them being the name the repository's test expects.
C36_Witness ==
    /\ test_run
    /\ Len(csv_opened) = 3
    /\ csv_opened[1] = <<"/home/user/downloads", "/", "midas", "_">>
                          \o <<"2", "0", "2", "1", "-", "0", "1", "-", "0", "1">> \o <<"-">> \o <<"2", "0", "2", "1", "-", "0", "1", "-", "3", "1">> \o <<"_TEST_RUN", ".csv">>

\* C39: a download called with a name outside midas, tame, tmu raises and
\* changes nothing: the step it takes ends the call and leaves the files,
\* the opened names, the queue, the threads, the counter, its lock and the
\* logs as they were, and in no state of such a call is a file opened, a
\* request queued or issued, or a thread at work.
C39_InvalidCategoryChangesNothing ==
    /\ [][SiteName \notin {"midas", "tame", "tmu"} =>
            /\ pcMain' = "aborted"
            /\ UNCHANGED <<files, csv_opened, queue, total_urls, hist, COUNTER,
                           COUNTER_LOCK, workerVars, logVars, stages>>]_vars
    /\ [](SiteName \notin {"midas", "tame", "tmu"} =>
            /\ pcMain \in {"download", "aborted"}
            /\ \A c \in CalledSet : files[c] = <<>>
            /\ csv_opened = <<>>
            /\ queue = <<>>
            /\ DOMAIN hist = {}
            /\ \A w \in Workers : pc[w] = "idle")

\* C39 witness: a call with the name other and a list of two requests has
\* raised, the counter standing at 1.
C39_Witness ==
    /\ SiteName = "other"
    /\ pcMain = "aborted"
    /\ Len(metadata["other"]) = 2
    /\ COUNTER = 1

\* the text lines of a file: the header, and every run of pieces up to the
\* piece that ends a row
RECURSIVE LinesOf(_)
LinesOf(f) ==
    IF f = <<>> THEN <<>>
    ELSE LET ends == {i \in 1..Len(f) : f[i].part \in {0, RowParts}}
         IN IF ends = {} THEN <<f>>
            ELSE LET k == CHOOSE i \in ends : \A j \in ends : i <= j
                 IN <<SubSeq(f, 1, k)>> \o LinesOf(SubSeq(f, k + 1, Len(f)))

Occurrences(x, s) == Cardinality({i \in 1..Len(s) : s[i] = x})

\* C37: a second download for the same category, dates and directory
\* overwrites the first: it opens the same name, and when it has returned,
\* the upstream having answered as before, the file holds the header once,
\* in its first line, and the same lines as after the first download, each
\* as often; at no time of the second download does the file hold more of
\* a request than the second download wrote.
C37_RerunOverwrites ==
    first_file # <<>> =>
        LET f == files[SiteName] IN
        /\ Len(csv_opened) = 2 => csv_opened[1] = csv_opened[2]
        /\ \A r \in DOMAIN first_hist :
              Len(SelectPieces(f, r.site_id)) <= first_hist[r].rows * RowParts
        /\ pcMain = "returned" =>
              /\ f[1] = Header
              /\ Occurrences(Header, f) = 1
              /\ \A l \in Range(LinesOf(f)) \cup Range(LinesOf(first_file)) :
                    Occurrences(l, LinesOf(f)) = Occurrences(l, LinesOf(first_file))

\* the seven metadata columns, in the order the header names them
MetadataColumns ==
    <<"longitude", "latitude", "sites_status", "type", "direction", "easting",
      "northing">>

\* the header name that stands for a column of the frame: the name itself
\* for site_id and the metadata columns, and for a key of the API the name
\* the header gives that measurement
HeaderFor(column) ==
    CASE column = "Site Name" -> "site_name"
      [] column = "Report Date" -> "report_date"
      [] column = "Time Period Ending" -> "time_period_end"
      [] column = "Time Interval" -> "interval"
      [] column = "0 - 520 cm" -> "len_0_520_cm"
      [] column = "521 - 660 cm" -> "len_521_660_cm"
      [] column = "661 - 1160 cm" -> "len_661_1160_cm"
      [] column = "1160+ cm" -> "len_1160_plus_cm"
      [] column = "0 - 10 mph" -> "speed_0_10_mph"
      [] column = "11 - 15 mph" -> "speed_11_15_mph"
      [] column = "16 - 20 mph" -> "speed_16_20_mph"
      [] column = "21 - 25 mph" -> "speed_21_25_mph"
      [] column = "26 - 30 mph" -> "speed_26_30_mph"
      [] column = "31 - 35 mph" -> "speed_31_35_mph"
      [] column = "36 - 40 mph" -> "speed_36_40_mph"
      [] column = "41 - 45 mph" -> "speed_41_45_mph"
      [] column = "46 - 50 mph" -> "speed_46_50_mph"
      [] column = "51 - 55 mph" -> "speed_51_55_mph"
      [] column = "56 - 60 mph" -> "speed_56_60_mph"
      [] column = "61 - 70 mph" -> "speed_61_70_mph"
      [] column = "71 - 80 mph" -> "speed_71_80_mph"
      [] column = "80+ mph" -> "speed_80_plus_mph"
      [] column = "Avg mph" -> "speed_avg_mph"
      [] column = "Total Volume" -> "total_vol"
      [] OTHER -> column

\* C31: every row of the frame made from a response has the request's site
\* id first, then the values of the body's row in the order of the API's
\* columns, then longitude, latitude, status, type, direction, easting and
\* northing of the request as its last seven values, and the columns of
\* the frame stand where the 32 names of the header stand.
C31_ColumnsMatchHeader ==
    response_df # <<>> =>
        LET frame == response_df[1]
            n == Len(rows_json)
            meta == url_metadata
        IN /\ Len(frame.data) = n
           /\ n >= 1 =>
                 /\ frame.columns = <<"site_id">> \o ApiColumns \o MetadataColumns
                 /\ Len(frame.columns) = Len(GetHeaders)
                 /\ \A i \in 1..Len(GetHeaders) :
                       GetHeaders[i] = HeaderFor(frame.columns[i])
           /\ \A k \in 1..n :
                 LET row == frame.data[k] IN
                 /\ Len(row) = Len(GetHeaders)
                 /\ row[1] = meta.site_id
                 /\ \A j \in 1..Len(ApiColumns) :
                       row[1 + j] = <<ApiColumns[j], RowMarks[k]>>
                 /\ SubSeq(row, Len(ApiColumns) + 2, Len(row))
                       = <<meta.longitude, meta.latitude, meta.status,
                           meta.site_type, meta.direction, meta.easting,
                           meta.northing>>

\* C31 witness: the frame of a body of two rows, for an inactive tmu site
\* without coordinates.
C31_Witness ==
    /\ response_df # <<>>
    /\ Len(response_df[1].data) = 2
    /\ url_metadata.site_type = <<"tmu">>
    /\ url_metadata.status = <<"Inactive">>
    /\ url_metadata.easting = NaN

\* the pieces of a string between its hyphens
RECURSIVE Fields(_)
Fields(s) ==
    LET at == {i \in 1..Len(s) : s[i] = "-"}
    IN IF at = {} THEN <<s>>
       ELSE LET i == CHOOSE a \in at : \A b \in at : a <= b
            IN <<SubSeq(s, 1, i - 1)>> \o Fields(SubSeq(s, i + 1, Len(s)))

\* the day a string of digits and hyphens names, as year, month and day
DayNamed(s) ==
    [year |-> AsInt(Fields(s)[1]), month |-> AsInt(Fields(s)[2]),
     day |-> AsInt(Fields(s)[3])]

\* the months since year 0 of a year and a month
MonthIndex(y, m) == 12 * y + (m - 1)

\* C40: when both dates of the config are empty, the start date names the
\* first day and the end date the last day of the month two months before
\* the month of the clock: of November or December of the year before in
\* January and February, and of a February of 29 days in a leap year and of
\* 28 days in another; when both dates are given, they are used as they
\* are.
C40_DefaultDates ==
    (start_date # <<>> \/ end_date # <<>>) =>
        /\ (config_dates[1] # <<>> /\ config_dates[2] # <<>>) =>
              (start_date = config_dates[1] /\ end_date = config_dates[2])
        /\ (config_dates[1] = <<>> /\ config_dates[2] = <<>>) =>
              LET first == DayNamed(start_date)
                  last == DayNamed(end_date)
                  leap == (first.year % 4 = 0 /\ first.year % 100 # 0)
                              \/ first.year % 400 = 0
              IN /\ Len(Fields(start_date)) = 3
                 /\ Len(Fields(end_date)) = 3
                 /\ MonthIndex(first.year, first.month)
                       = MonthIndex(today.year, today.month) - 2
                 /\ first.month \in 1..12
                 /\ first.day = 1
                 /\ last.year = first.year
                 /\ last.month = first.month
                 /\ last.day = CASE first.month \in {4, 6, 9, 11} -> 30
                                  [] first.month = 2 /\ leap -> 29
                                  [] first.month = 2 /\ ~leap -> 28
                                  [] OTHER -> 31
                 /\ today.month = 1 => (first.month = 11 /\ first.year = today.year - 1)
                 /\ today.month = 2 => (first.month = 12 /\ first.year = today.year - 1)

\* C40 witness: in April of a leap year the empty dates have become the
\* first and the 29th of February.
C40_Witness ==
    /\ today = [year |-> 2024, month |-> 4]
    /\ config_dates = <<<<>>, <<>>>>
    /\ start_date = <<"2", "0", "2", "4", "-", "2", "-", "0", "1">>
    /\ end_date = <<"2", "0", "2", "4", "-", "2", "-", "2", "9">>

\* the names of a path that lead to its directory: the runs of pieces
\* between its slashes, in their order, a "." left out
Components(s) ==
    LET starts == {i \in 1..Len(s) : s[i] # "/" /\ (i = 1 \/ s[i - 1] = "/")}
        EndOf(i) == CHOOSE j \in i..Len(s) :
                        /\ \A k \in i..j : s[k] # "/"
                        /\ (j = Len(s) \/ s[j + 1] = "/")
        named == {i \in starts : SubSeq(s, i, EndOf(i)) # <<".">>}
        Nth(k) == CHOOSE i \in named : Cardinality({j \in named : j < i}) = k - 1
    IN [k \in 1..Cardinality(named) |-> SubSeq(s, Nth(k), EndOf(Nth(k)))]

\* the names of the days in the name of a run directory
DayNames ==
    (<<"2", "0", "2", "0", "-", "0", "1", "-", "0", "1">> :> <<"January", "-", "0", "1", "-", "2", "0", "2", "0">>)
    @@ (<<"2", "0", "2", "0", "-", "0", "1", "-", "3", "1">> :> <<"January", "-", "3", "1", "-", "2", "0", "2", "0">>)
    @@ (<<"2", "0", "2", "4", "-", "9", "-", "0", "1">> :> <<"September", "-", "0", "1", "-", "2", "0", "2", "4">>)
    @@ (<<"2", "0", "2", "4", "-", "9", "-", "3", "0">> :> <<"September", "-", "3", "0", "-", "2", "0", "2", "4">>)

\* C38: when file_handler returns, in API mode and in local mode alike, the
\* fourth path it returns is
\* <output_path>/output_data/<run timestamp>_<start date>_to_<end date>/
\* with the output path of the config without its quotation marks, the
\* three other paths are the directories data, metadata and report in that
\* run directory, and these three are all the directories made below it.
C38_ThreeDirectories ==
    handler_paths # <<>> =>
        LET user == SelectSeq(output_path, LAMBDA c : c \notin {"\"", "'"})
            run == user \o <<"/", "output_data", "/">> \o run_id \o <<"_">>
                       \o DayNames[start_date] \o <<"_to_">>
                       \o DayNames[end_date] \o <<"/">>
            below == {d \in made_dirs :
                         /\ Len(Components(d)) > Len(Components(run))
                         /\ SubSeq(Components(d), 1, Len(Components(run)))
                                = Components(run)}
        IN /\ Len(handler_paths) = 4
           /\ handler_paths[4] = run
           /\ Components(handler_paths[1]) = Components(run) \o << <<"data">> >>
           /\ Components(handler_paths[2]) = Components(run) \o << <<"metadata">> >>
           /\ Components(handler_paths[3]) = Components(run) \o << <<"report">> >>
           /\ \A i \in 1..3 : (handler_paths[i][1] = "/") <=> (run[1] = "/")
           /\ below = {handler_paths[1], handler_paths[2], handler_paths[3]}
           /\ Cardinality(below) = 3
           /\ Components(run)[Len(Components(user)) + 1] = <<"output_data">>
           /\ Len(Components(run)) = Len(Components(user)) + 2

\* C38 witness: the call of the tests in API mode has returned the three
\* directories of the run directory of 2022-01-31.
C38_Witness ==
    /\ api_run
    /\ output_path = <<"/", "tmp", "/", "landing_zone">>
    /\ handler_paths # <<>>
    /\ handler_paths[1] =
           <<"/", "tmp", "/", "landing_zone", "/", "output_data", "/">>
           \o <<"2", "0", "2", "2", "-", "0", "1", "-", "3", "1", "-", "0", "0", "-", "0", "0", "-", "0", "0", ".", "0", "0", "0", "0", "0", "0">>
           \o <<"_", "January", "-", "0", "1", "-", "2", "0", "2", "0", "_to_",
                "January", "-", "3", "1", "-", "2", "0", "2", "0", "/", "data">>
    /\ Cardinality(made_dirs) = 7

====
